---- MODULE Spec2Model ----
(***************************************************************************)
(* Deck builder / card-play engine of the DeckBuilder React component.     *)
(*                                                                         *)
(* State = the component's React state (builderState, hasBuiltDeck,        *)
(* hasShuffledDeck, activePlay, opsError, attachWarningId) plus            *)
(* `rendered`, the values of the last render that the handler closures     *)
(* read (builderState, hasBuiltDeck, hasShuffledDeck, activePlay used      *)
(* outside a setState updater).  A setState updater is a function of       *)
(* `prev`, the live state; everything a handler reads outside the updater  *)
(* argument comes from `rendered`.                                         *)
(*                                                                         *)
(* Spec        : every command is followed by a re-render before the next  *)
(*               one (one command per browser event).                      *)
(* SpecBatched : several commands may be issued against one render         *)
(*               (calls batched in one event / headless caller).           *)
(***************************************************************************)
EXTENDS Integers, Sequences, FiniteSets, TLC

(* ---------------------------------------------------------------------- *)
(* Bounds of the model                                                     *)
(* ---------------------------------------------------------------------- *)
\* largest nullCount explored (adjustNullCount has no upper limit)
MaxNulls == 2
\* largest modifierCapacity explored (adjustModifierCapacity has no upper limit)
MaxCapacity == 3
\* largest in-range value typed into the hand-limit input
MaxHandInput == 1
\* largest count of one card id explored (counts have no upper limit in
\* simple-counters mode)
MaxCount == 2

(* ---------------------------------------------------------------------- *)
(* Program constants and component props                                   *)
(* ---------------------------------------------------------------------- *)
DEFAULT_HAND_LIMIT == 5
MAX_HAND_LIMIT == 20
\* props of the modelled instance: <DeckBuilder baseTarget={2} minNulls={1}
\*   modifierCapacityDefault={2} .../>
baseTarget == 2
minNulls == 1
modifierCapacityDefault == 2

\* card catalog of the modelled instance (baseCardsOverride, modCardsOverride,
\* nullCardOverride)
baseCards == <<"B1">>
modCards == <<"M1">>
nullId == "N"
BaseIds == {baseCards[i] : i \in 1..Len(baseCards)}
ModIds == {modCards[i] : i \in 1..Len(modCards)}
CardIds == BaseIds \cup ModIds \cup {nullId}
\* card.cost ?? 0
Cost(id) == IF id = "M1" THEN 2 ELSE 0

\* opsError values
NoError == "null"
LockMsg == "Lock the deck before drawing."
BuildMsg == "Build the deck before drawing."
ShuffleMsg == "Shuffle the deck before drawing."
DepletedMsg == "Deck depleted. Refill or rebuild to continue drawing."
NullOnlyMsg == "Null cards can only be discarded."
BaseFirstPlayMsg == "Select a base before playing modifiers."
BaseFirstAttachMsg == "Select a base before attaching modifiers."

\* Number.parseInt(e.target.value, 10): NaN, or the integer n
NaN == [nan |-> TRUE, n |-> 0]
Parsed(k) == [nan |-> FALSE, n |-> k]
\* activePlay === null
NoPlay == [baseId |-> "null", mods |-> <<>>]
\* attachWarningId === null
NoWarning == "null"

VARIABLES
  builderState,       \* useState(initialState), line 208
  hasBuiltDeck,       \* line 218
  hasShuffledDeck,    \* line 219
  activePlay,         \* line 213
  attachWarningId,    \* line 217
  opsError,           \* line 220
  simpleCounters,     \* prop, line 166
  modCapacityAsCount, \* prop, line 167
  rendered,           \* what the handlers of the last render closed over
  loaded,             \* the stored text last read by loadState and its result
  storage,            \* localStorage: key -> stored text (ImportExportJSON)
  importPhase,        \* position of handleFile's reader.onload
  pending,            \* collapseEntries of the import in progress
  backup,             \* the backup file last downloaded by an import
  exported            \* the file last downloaded by handleExportAll

vars == <<builderState, hasBuiltDeck, hasShuffledDeck, activePlay,
          attachWarningId, opsError, simpleCounters, modCapacityAsCount,
          rendered, loaded, storage, importPhase, pending, backup, exported>>

(* ---------------------------------------------------------------------- *)
(* Helpers                                                                 *)
(* ---------------------------------------------------------------------- *)
\* clamp(value, min) is called with max undefined
Undefined == -1
clamp(value, min, max) ==
  IF value < min THEN min
  ELSE IF max # Undefined /\ value > max THEN max
  ELSE value

Max(a, b) == IF a >= b THEN a ELSE b
Min(a, b) == IF a <= b THEN a ELSE b

RECURSIVE SumOver(_, _)
SumOver(f, S) ==
  IF S = {} THEN 0
  ELSE LET x == CHOOSE y \in S : TRUE IN f[x] + SumOver(f, S \ {x})

sumCounts(counts) == SumOver(counts, DOMAIN counts)

\* id repeated qty times
Repeat(id, qty) == [i \in 1..qty |-> id]

RECURSIVE ConcatCounts(_, _)
\* Object.entries(counts).forEach(([id, qty]) => push id qty times), in key order
ConcatCounts(counts, idSeq) ==
  IF idSeq = <<>> THEN <<>>
  ELSE Repeat(Head(idSeq), counts[Head(idSeq)]) \o ConcatCounts(counts, Tail(idSeq))

\* number of entries of sequence s whose id is `id` (entries are ids)
CountId(s, id) == Cardinality({i \in 1..Len(s) : s[i] = id})
\* number of entries of a hand/discard sequence whose .id is `id`
CountEntry(s, id) == Cardinality({i \in 1..Len(s) : s[i].id = id})

Ids(entries) == [i \in 1..Len(entries) |-> entries[i].id]

defaultState ==
  [ baseCounts |-> [id \in BaseIds |-> 0],
    modCounts |-> [id \in ModIds |-> 0],
    nullCount |-> minNulls,
    modifierCapacity |-> modifierCapacityDefault,
    hasBuiltDeck |-> FALSE,
    hasShuffledDeck |-> FALSE,
    deck |-> <<>>,
    hand |-> <<>>,
    discard |-> <<>>,
    isLocked |-> FALSE,
    handLimit |-> DEFAULT_HAND_LIMIT ]

\* a deck array without the null cards
buildDeckArrayNoNulls(bs) ==
  ConcatCounts(bs.baseCounts, baseCards) \o ConcatCounts(bs.modCounts, modCards)

\* utility: build a fresh deck array (ids repeated per counts), from the
\* builderState the closure holds
buildDeckArray(bs) ==
  ConcatCounts(bs.baseCounts, baseCards)
    \o ConcatCounts(bs.modCounts, modCards)
    \o (IF bs.nullCount # 0 THEN Repeat(nullId, bs.nullCount) ELSE <<>>)

Swap(arr, i, j) == [arr EXCEPT ![i] = arr[j], ![j] = arr[i]]

RECURSIVE FisherYates(_, _)
\* for (i = len-1; i > 0; i--) { j = floor(random * (i+1)); swap(i, j) }
\* (1-based here): every outcome the random source can produce
FisherYates(arr, i) ==
  IF i <= 1 THEN {arr}
  ELSE UNION { FisherYates(Swap(arr, i, j), i - 1) : j \in 1..i }

shuffleInPlace(arr) == FisherYates(arr, Len(arr))

(* ---------------------------------------------------------------------- *)
(* Capacity / cost accounting (utils/modCapacity)                          *)
(* ---------------------------------------------------------------------- *)
\* cost-weighted usage: sum over modifier ids of count * cost
getModCapacityUsed(counts) ==
  SumOver([id \in DOMAIN counts |-> counts[id] * Cost(id)], DOMAIN counts)

\* true iff currentUsage + cost(cardId) <= capacity
canAddModCardFrom(state, cardId) ==
  getModCapacityUsed(state.modCounts) + Cost(cardId) <= state.modifierCapacity

getModUsedSnapshot(state) ==
  IF modCapacityAsCount THEN sumCounts(state.modCounts)
  ELSE getModCapacityUsed(state.modCounts)

\* snapshot test that lets a full slot count through
canAddModCardSnapshotInclusive(state, cardId) ==
  IF simpleCounters /\ modCapacityAsCount THEN TRUE
  ELSE IF modCapacityAsCount
    THEN getModUsedSnapshot(state) <= state.modifierCapacity
  ELSE canAddModCardFrom(state, cardId)

canAddModCardSnapshot(state, cardId) ==
  IF simpleCounters /\ modCapacityAsCount THEN TRUE
  ELSE IF modCapacityAsCount
    THEN getModUsedSnapshot(state) < state.modifierCapacity
  ELSE canAddModCardFrom(state, cardId)

\* the live test: reads the builderState of the render
canAddModCard(cardId) ==
  IF simpleCounters /\ modCapacityAsCount THEN TRUE
  ELSE IF modCapacityAsCount
    THEN getModUsedSnapshot(rendered.builderState)
           < rendered.builderState.modifierCapacity
  ELSE canAddModCardFrom(rendered.builderState, cardId)

(* ---------------------------------------------------------------------- *)
(* Composition validator: values computed by each render                  *)
(* ---------------------------------------------------------------------- *)
baseTotal == sumCounts(rendered.builderState.baseCounts)

modCapacityUsed ==
  IF modCapacityAsCount THEN sumCounts(rendered.builderState.modCounts)
  ELSE getModCapacityUsed(rendered.builderState.modCounts)

baseValid == IF simpleCounters THEN TRUE ELSE baseTotal = baseTarget

nullValid == rendered.builderState.nullCount >= minNulls

\* validator that asks for spare capacity
modValidStrict ==
  IF simpleCounters /\ modCapacityAsCount THEN TRUE
  ELSE modCapacityUsed < rendered.builderState.modifierCapacity

modValid ==
  IF simpleCounters /\ modCapacityAsCount THEN TRUE
  ELSE modCapacityUsed <= rendered.builderState.modifierCapacity

deckIsValid == baseValid /\ nullValid /\ modValid

(* ---------------------------------------------------------------------- *)
(* setBuilderState updaters: functions of prev                             *)
(* ---------------------------------------------------------------------- *)
applyInitialCounts(state) ==
  IF ~simpleCounters THEN state
  ELSE LET primaryBaseId == baseCards[1]
           primaryModId == modCards[1]
           b == IF sumCounts(state.baseCounts) = 0
                  THEN [state.baseCounts EXCEPT ![primaryBaseId] = baseTarget]
                  ELSE state.baseCounts
           m == IF sumCounts(state.modCounts) = 0
                  THEN [state.modCounts EXCEPT ![primaryModId] = modifierCapacityDefault]
                  ELSE state.modCounts
       IN [state EXCEPT !.baseCounts = b, !.modCounts = m]

\* the updater of shuffleDeck, for the permutation nextDeck the shuffle produced
\* shuffle that collects the discard pile into the deck
shuffleUpdaterCollecting(prev, nextDeck) ==
  [prev EXCEPT !.deck = nextDeck \o Ids(prev.discard), !.discard = <<>>,
               !.hasShuffledDeck = TRUE]

shuffleUpdater(prev, nextDeck) ==
  [prev EXCEPT !.deck = nextDeck, !.hasShuffledDeck = TRUE]

\* draw that reads the top card without popping it
drawUpdaterKeepsDeck(prev) ==
  IF ~prev.isLocked \/ Len(prev.hand) >= prev.handLimit \/ Len(prev.deck) = 0
    THEN [state |-> prev, drewCard |-> FALSE, depleted |-> Len(prev.deck) = 0]
  ELSE [state |-> [prev EXCEPT
                     !.hand = Append(prev.hand, [id |-> prev.deck[Len(prev.deck)],
                                                 state |-> "unspent"])],
        drewCard |-> TRUE, depleted |-> FALSE]

\* draw that takes the first card of the array (shift) instead of the last
drawUpdaterFromHead(prev) ==
  IF ~prev.isLocked \/ Len(prev.hand) >= prev.handLimit \/ Len(prev.deck) = 0
    THEN [state |-> prev, drewCard |-> FALSE, depleted |-> Len(prev.deck) = 0]
  ELSE [state |-> [prev EXCEPT
                     !.deck = Tail(prev.deck),
                     !.hand = Append(prev.hand, [id |-> Head(prev.deck),
                                                 state |-> "unspent"])],
        drewCard |-> TRUE, depleted |-> FALSE]

\* draw that pops the card before it checks the hand limit
drawUpdaterPopsFirst(prev) ==
  IF ~prev.isLocked THEN [state |-> prev, drewCard |-> FALSE, depleted |-> FALSE]
  ELSE IF Len(prev.deck) = 0
    THEN [state |-> prev, drewCard |-> FALSE, depleted |-> TRUE]
  ELSE LET popped == [prev EXCEPT !.deck = SubSeq(prev.deck, 1, Len(prev.deck) - 1)]
       IN IF Len(prev.hand) >= prev.handLimit
            THEN [state |-> popped, drewCard |-> FALSE, depleted |-> FALSE]
          ELSE [state |-> [popped EXCEPT
                             !.hand = Append(prev.hand, [id |-> prev.deck[Len(prev.deck)],
                                                         state |-> "unspent"])],
                drewCard |-> TRUE, depleted |-> FALSE]

\* the updater of draw: the next state and the two flags it sets
drawUpdater(prev) ==
  IF ~prev.isLocked
    THEN [state |-> prev, drewCard |-> FALSE, depleted |-> FALSE]
  ELSE IF Len(prev.hand) >= prev.handLimit
    THEN [state |-> prev, drewCard |-> FALSE, depleted |-> FALSE]
  ELSE IF Len(prev.deck) = 0
    THEN [state |-> prev, drewCard |-> FALSE, depleted |-> TRUE]
  ELSE LET cardId == prev.deck[Len(prev.deck)]
       IN [state |-> [prev EXCEPT
                        !.deck = SubSeq(prev.deck, 1, Len(prev.deck) - 1),
                        !.hand = Append(prev.hand, [id |-> cardId, state |-> "unspent"])],
           drewCard |-> TRUE, depleted |-> FALSE]

\* unlock that also empties the zones
toggleLockUpdaterClearing(prev, built) ==
  IF ~prev.isLocked
    THEN [prev EXCEPT !.isLocked = TRUE, !.deck = built, !.hand = <<>>,
                      !.discard = <<>>, !.hasBuiltDeck = TRUE,
                      !.hasShuffledDeck = FALSE]
  ELSE [prev EXCEPT !.isLocked = FALSE, !.hasBuiltDeck = FALSE,
                    !.hasShuffledDeck = FALSE, !.deck = <<>>, !.hand = <<>>,
                    !.discard = <<>>]

\* unlock that leaves the shuffled flag of builderState set
toggleLockUpdaterKeepsShuffled(prev, built) ==
  IF ~prev.isLocked
    THEN [prev EXCEPT !.isLocked = TRUE, !.deck = built, !.hand = <<>>,
                      !.discard = <<>>, !.hasBuiltDeck = TRUE,
                      !.hasShuffledDeck = FALSE]
  ELSE [prev EXCEPT !.isLocked = FALSE, !.hasBuiltDeck = FALSE]

\* the updater of toggleLockDeck, for the shuffled array `built` made from
\* the closure's counts
toggleLockUpdater(prev, built) ==
  IF ~prev.isLocked
    THEN [prev EXCEPT !.isLocked = TRUE, !.deck = built, !.hand = <<>>,
                      !.discard = <<>>, !.hasBuiltDeck = TRUE,
                      !.hasShuffledDeck = FALSE]
  ELSE [prev EXCEPT !.isLocked = FALSE, !.hasBuiltDeck = FALSE,
                    !.hasShuffledDeck = FALSE]

resetDeckUpdater(prev, shuffled) ==
  [prev EXCEPT !.deck = shuffled, !.hand = <<>>, !.discard = <<>>,
               !.hasBuiltDeck = TRUE, !.hasShuffledDeck = TRUE]

\* adjustBaseCount without the base target test
adjustBaseCountUpdaterUnchecked(prev, cardId, delta) ==
  [prev EXCEPT !.baseCounts[cardId] = clamp(prev.baseCounts[cardId] + delta, 0, Undefined)]

adjustBaseCountUpdater(prev, cardId, delta) ==
  LET current == prev.baseCounts[cardId]
      next == clamp(current + delta, 0, Undefined)
      prevTotal == sumCounts(prev.baseCounts)
      newTotal == prevTotal - current + next
  IN IF ~simpleCounters /\ newTotal > baseTarget THEN prev
     ELSE [prev EXCEPT !.baseCounts[cardId] = next]

adjustModCountUpdater(prev, cardId, delta) ==
  IF prev.isLocked THEN prev
  ELSE IF delta > 0 /\ ~canAddModCardSnapshot(prev, cardId) THEN prev
  ELSE [prev EXCEPT !.modCounts[cardId] = clamp(prev.modCounts[cardId] + delta, 0, Undefined)]

\* adjustNullCount clamped at 0 instead of minNulls
adjustNullCountUpdaterFloorZero(prev, delta) ==
  [prev EXCEPT !.nullCount = clamp(prev.nullCount + delta, 0, Undefined)]

adjustNullCountUpdater(prev, delta) ==
  [prev EXCEPT !.nullCount = clamp(prev.nullCount + delta, minNulls, Undefined)]

adjustModifierCapacityUpdater(prev, delta) ==
  [prev EXCEPT !.modifierCapacity = Max(prev.modifierCapacity + delta, 0)]

\* hand-limit input that stores the typed number as it is
setHandLimitUpdaterUnclamped(prev, next) ==
  [prev EXCEPT !.handLimit = IF next.nan THEN prev.handLimit ELSE next.n]

setHandLimitUpdater(prev, next) ==
  [prev EXCEPT !.handLimit = IF next.nan THEN prev.handLimit
                             ELSE clamp(next.n, 0, MAX_HAND_LIMIT)]

RECURSIVE discardLoop(_, _, _, _)
\* for (i = 0; i < count; i++) { cardId = deck.pop(); if (!cardId) break; ... }
discardLoop(deck, discard, i, count) ==
  IF i >= count \/ Len(deck) = 0 THEN [deck |-> deck, discard |-> discard]
  ELSE discardLoop(SubSeq(deck, 1, Len(deck) - 1),
                   Append(discard, [id |-> deck[Len(deck)], origin |-> "discarded"]),
                   i + 1, count)

\* discardFromDeck that takes the cards from the bottom of the deck
discardFromDeckUpdaterFromBottom(prev, count) ==
  LET m == Min(Max(count, 0), Len(prev.deck))
  IN [prev EXCEPT !.deck = SubSeq(prev.deck, m + 1, Len(prev.deck)),
                  !.discard = prev.discard \o
                     [i \in 1..m |-> [id |-> prev.deck[i], origin |-> "discarded"]]]

discardFromDeckUpdater(prev, count) ==
  LET r == discardLoop(prev.deck, prev.discard, 0, count)
  IN [prev EXCEPT !.deck = r.deck, !.discard = r.discard]

\* returnDiscardToDeck: if (toTop) deck.push(...ids) else deck.unshift(...ids)
returnDiscardToDeckPlaced(prev, ids, toTop) ==
  IF toTop THEN prev.deck \o ids ELSE ids \o prev.deck

\* index of the first entry with the id, 0 when there is none (findIndex)
findIndex(entries, cardId) ==
  IF \E i \in 1..Len(entries) : entries[i].id = cardId
    THEN CHOOSE i \in 1..Len(entries) :
           /\ entries[i].id = cardId
           /\ \A j \in 1..(i - 1) : entries[j].id # cardId
  ELSE 0

\* arr.splice(idx, 1): the array without its idx-th entry
splice(arr, idx) == SubSeq(arr, 1, idx - 1) \o SubSeq(arr, idx + 1, Len(arr))

\* returnDiscardItemToDeck(idx), idx a position of the discard (1-based)
returnDiscardItemToDeckUpdater(prev, idx) ==
  [prev EXCEPT !.discard = splice(prev.discard, idx),
               !.deck = Append(prev.deck, prev.discard[idx].id)]

\* returnDiscardGroupToDeck that puts the ids under the deck
returnDiscardGroupToDeckUpdaterToBottom(prev, cardId, all) ==
  LET Matches(d) == d.id = cardId
      Others(d) == d.id # cardId
      idx == findIndex(prev.discard, cardId)
  IN IF idx = 0 THEN prev
     ELSE IF all
       THEN [prev EXCEPT !.discard = SelectSeq(prev.discard, Others),
                         !.deck = Ids(SelectSeq(prev.discard, Matches)) \o prev.deck]
     ELSE [prev EXCEPT !.discard = splice(prev.discard, idx),
                       !.deck = <<prev.discard[idx].id>> \o prev.deck]

returnDiscardGroupToDeckUpdater(prev, cardId, all) ==
  IF all
    THEN LET Matches(d) == d.id = cardId
             Others(d) == d.id # cardId
             idsToMove == Ids(SelectSeq(prev.discard, Matches))
             remaining == SelectSeq(prev.discard, Others)
         IN [prev EXCEPT !.discard = remaining, !.deck = prev.deck \o idsToMove]
  ELSE LET idx == findIndex(prev.discard, cardId)
       IN IF idx = 0 THEN prev
          ELSE [prev EXCEPT !.discard = splice(prev.discard, idx),
                            !.deck = Append(prev.deck, prev.discard[idx].id)]

RECURSIVE returnToHandLoop(_, _, _, _, _, _)
\* for (i = discard.length - 1; i >= 0 && moved.length < space; i--)
\*   if (discard[i].id === cardId) { moved.push(discard.splice(i, 1)[0]); if (!all) break }
returnToHandLoop(discard, moved, i, space, cardId, all) ==
  IF i < 1 \/ Len(moved) >= space THEN [discard |-> discard, moved |-> moved]
  ELSE IF discard[i].id = cardId
    THEN IF ~all
           THEN [discard |-> splice(discard, i), moved |-> Append(moved, discard[i])]
         ELSE returnToHandLoop(splice(discard, i), Append(moved, discard[i]),
                               i - 1, space, cardId, all)
  ELSE returnToHandLoop(discard, moved, i - 1, space, cardId, all)

\* returnDiscardGroupToHand that moves every match whatever the hand space
returnDiscardGroupToHandUpdaterUncapped(prev, cardId, all) ==
  LET r == returnToHandLoop(prev.discard, <<>>, Len(prev.discard),
                            Len(prev.discard) + 1, cardId, all)
  IN IF Len(r.moved) = 0 THEN prev
     ELSE [prev EXCEPT
             !.discard = r.discard,
             !.hand = prev.hand \o
                [i \in 1..Len(r.moved) |->
                   [id |-> r.moved[i].id, state |-> "unspent"]]]

returnDiscardGroupToHandUpdater(prev, cardId, all) ==
  LET space == Max(0, prev.handLimit - Len(prev.hand))
  IN IF space <= 0 THEN prev
     ELSE LET r == returnToHandLoop(prev.discard, <<>>, Len(prev.discard),
                                    space, cardId, all)
          IN IF Len(r.moved) = 0 THEN prev
             ELSE [prev EXCEPT
                     !.discard = r.discard,
                     !.hand = prev.hand \o
                        [i \in 1..Len(r.moved) |->
                           [id |-> r.moved[i].id, state |-> "unspent"]]]

\* returnDiscardItemToHand(idx), idx a position of the discard (1-based)
returnDiscardItemToHandUpdater(prev, idx) ==
  IF Len(prev.hand) >= prev.handLimit THEN prev
  ELSE [prev EXCEPT !.discard = splice(prev.discard, idx),
                    !.hand = Append(prev.hand,
                                    [id |-> prev.discard[idx].id, state |-> "unspent"])]

RECURSIVE removeAllLoop(_, _, _, _)
\* for (i = hand.length - 1; i >= 0; i--)
\*   if (hand[i].id === cardId) removed.push(hand.splice(i, 1)[0])
removeAllLoop(hand, removed, i, cardId) ==
  IF i < 1 THEN [hand |-> hand, removed |-> removed]
  ELSE IF hand[i].id = cardId
    THEN removeAllLoop(splice(hand, i), Append(removed, hand[i]), i - 1, cardId)
  ELSE removeAllLoop(hand, removed, i - 1, cardId)

\* discardGroupFromHand whose single discard takes the last matching entry
discardGroupFromHandUpdaterFromEnd(prev, cardId, all, origin) ==
  LET r == removeAllLoop(prev.hand, <<>>, Len(prev.hand), cardId)
      n == IF all THEN Len(r.removed) ELSE Min(1, Len(r.removed))
      Last == CHOOSE i \in 1..Len(prev.hand) :
                /\ prev.hand[i].id = cardId
                /\ \A j \in (i + 1)..Len(prev.hand) : prev.hand[j].id # cardId
  IN IF n = 0 THEN prev
     ELSE [prev EXCEPT
             !.hand = IF all THEN r.hand ELSE splice(prev.hand, Last),
             !.discard = prev.discard \o
                [i \in 1..n |-> [id |-> cardId, origin |-> origin]]]

discardGroupFromHandUpdater(prev, cardId, all, origin) ==
  LET r == IF all THEN removeAllLoop(prev.hand, <<>>, Len(prev.hand), cardId)
           ELSE LET idx == findIndex(prev.hand, cardId)
                IN IF idx >= 1
                     THEN [hand |-> splice(prev.hand, idx), removed |-> <<prev.hand[idx]>>]
                   ELSE [hand |-> prev.hand, removed |-> <<>>]
  IN IF Len(r.removed) = 0 THEN prev
     ELSE [prev EXCEPT
             !.hand = r.hand,
             !.discard = prev.discard \o
                [i \in 1..Len(r.removed) |-> [id |-> r.removed[i].id, origin |-> origin]]]

(* ---------------------------------------------------------------------- *)
(* Play selection (utils/playFlow)                                         *)
(* ---------------------------------------------------------------------- *)
Includes(s, x) == \E i \in 1..Len(s) : s[i] = x

RECURSIVE SumCosts(_)
SumCosts(mods) == IF mods = <<>> THEN 0 ELSE Cost(Head(mods)) + SumCosts(Tail(mods))

startPlaySelection(prev, baseId) == [baseId |-> baseId, mods |-> <<>>]

\* hand: the hand entries the counts are taken from
toggleAttach(prev, modId, hand, capacity) ==
  IF prev = NoPlay THEN prev
  ELSE IF Includes(prev.mods, modId)
    THEN LET Keep(m) == m # modId
         IN [prev EXCEPT !.mods = SelectSeq(prev.mods, Keep)]
  ELSE IF CountEntry(hand, modId) >= 1
          /\ SumCosts(prev.mods) + Cost(modId) <= capacity
    THEN [prev EXCEPT !.mods = Append(prev.mods, modId)]
  ELSE prev

\* the selection to finalize, NoPlay when there is none
finalizeSelection(play) == play

cancelSelection(play) == NoPlay

(* ---------------------------------------------------------------------- *)
(* Commands                                                                *)
(* ---------------------------------------------------------------------- *)
props == <<simpleCounters, modCapacityAsCount>>
flags == <<hasBuiltDeck, hasShuffledDeck>>
play == <<activePlay, attachWarningId>>
\* what the handlers of the deck builder neither read nor write
io == <<loaded, storage, importPhase, pending, backup, exported>>


\* inputs of the commands
Deltas == {-2, -1, 1}
DiscardCounts == {1, 2}
HandInputs == {NaN} \cup {Parsed(k) : k \in -1..MaxHandInput}
Origins == {"played", "discarded"}

\* what a render hands to the closures of its handlers
View == [builderState |-> builderState, hasBuiltDeck |-> hasBuiltDeck,
         hasShuffledDeck |-> hasShuffledDeck, activePlay |-> activePlay]

\* shuffleDeck that does not ask before a re-shuffle
shuffleDeckOutcomeUnconfirmed(confirmed, nextDeck) ==
  [builderState |-> shuffleUpdater(builderState, nextDeck),
   hasShuffledDeck |-> TRUE,
   opsError |-> NoError]

\* shuffleDeck: next builderState, shuffled flag and opsError, for the answer
\* to window.confirm and the array nextDeck the shuffle produced
shuffleDeckOutcome(confirmed, nextDeck) ==
  IF rendered.hasShuffledDeck /\ ~confirmed
    THEN [builderState |-> builderState, hasShuffledDeck |-> hasShuffledDeck,
          opsError |-> opsError]
  ELSE [builderState |-> shuffleUpdater(builderState, nextDeck),
        hasShuffledDeck |-> TRUE,
        opsError |-> NoError]

shuffleDeck(confirmed) ==
  \E nextDeck \in (IF rendered.hasShuffledDeck /\ ~confirmed
                     THEN {builderState.deck}
                   ELSE shuffleInPlace(builderState.deck)) :
    /\ builderState' = shuffleDeckOutcome(confirmed, nextDeck).builderState
    /\ hasShuffledDeck' = shuffleDeckOutcome(confirmed, nextDeck).hasShuffledDeck
    /\ opsError' = shuffleDeckOutcome(confirmed, nextDeck).opsError
    /\ UNCHANGED <<hasBuiltDeck, play, props, io>>

\* draw(): the updater sets drewCard / depleted; lines 458-463 read them
\* after setBuilderState returns.  React runs the updater inside
\* setBuilderState only when the component has no update pending (eager);
\* otherwise it runs at the next render, after the flags were read.
\* The outcome: the next builderState and opsError.
drawOutcome(eager) ==
  LET r == drawUpdater(builderState)
  IN [builderState |-> r.state,
      opsError |-> IF eager /\ r.drewCard THEN NoError
                   ELSE IF eager /\ r.depleted THEN DepletedMsg
                   ELSE opsError]

\* handleDraw that tests the shuffled flag before the built flag
handleDrawOutcomeShuffleFirst(eager) ==
  IF ~rendered.builderState.isLocked
    THEN [builderState |-> builderState, opsError |-> LockMsg]
  ELSE IF ~rendered.hasShuffledDeck
    THEN [builderState |-> builderState, opsError |-> ShuffleMsg]
  ELSE IF ~rendered.hasBuiltDeck
    THEN [builderState |-> builderState, opsError |-> BuildMsg]
  ELSE drawOutcome(eager)

\* handleDraw: the lifecycle checks read the rendered flags
handleDrawOutcome(eager) ==
  LET needsLock == ~rendered.builderState.isLocked
      needsBuild == rendered.builderState.isLocked /\ ~rendered.hasBuiltDeck
      needsShuffle == rendered.builderState.isLocked /\ rendered.hasBuiltDeck
                        /\ ~rendered.hasShuffledDeck
  IN IF needsLock THEN [builderState |-> builderState, opsError |-> LockMsg]
     ELSE IF needsBuild THEN [builderState |-> builderState, opsError |-> BuildMsg]
     ELSE IF needsShuffle THEN [builderState |-> builderState, opsError |-> ShuffleMsg]
     ELSE drawOutcome(eager)

handleDraw(eager) ==
  /\ builderState' = handleDrawOutcome(eager).builderState
  /\ opsError' = handleDrawOutcome(eager).opsError
  /\ UNCHANGED <<flags, play, props, io>>

\* the arrays the lock can materialize: buildDeckArray() reads the
\* builderState of the render the handler closes over
lockDecks == shuffleInPlace(buildDeckArray(rendered.builderState))

\* toggleLockDeck that locks a valid composition only
toggleLockOutcomeGated(built) ==
  IF ~builderState.isLocked /\ ~deckIsValid
    THEN [builderState |-> builderState, hasBuiltDeck |-> hasBuiltDeck,
          hasShuffledDeck |-> hasShuffledDeck, opsError |-> opsError]
    ELSE [builderState |-> toggleLockUpdater(builderState, built),
          hasBuiltDeck |-> ~builderState.isLocked,
          hasShuffledDeck |-> FALSE,
          opsError |-> IF ~builderState.isLocked THEN ShuffleMsg ELSE NoError]

\* toggleLockDeck: next builderState, flags and opsError; `built` is used
\* only when locking
toggleLockOutcome(built) ==
  [builderState |-> toggleLockUpdater(builderState, built),
   hasBuiltDeck |-> ~builderState.isLocked,
   hasShuffledDeck |-> FALSE,
   opsError |-> IF ~builderState.isLocked THEN ShuffleMsg ELSE NoError]

toggleLockDeck ==
  \E built \in (IF ~builderState.isLocked THEN lockDecks ELSE {<<>>}) :
    /\ builderState' = toggleLockOutcome(built).builderState
    /\ hasBuiltDeck' = toggleLockOutcome(built).hasBuiltDeck
    /\ hasShuffledDeck' = toggleLockOutcome(built).hasShuffledDeck
    /\ opsError' = toggleLockOutcome(built).opsError
    /\ UNCHANGED <<play, props, io>>

\* resetDeck that also locks the deck
resetDeckOutcomeLocking(shuffled) ==
  [builderState |-> [resetDeckUpdater(builderState, shuffled) EXCEPT !.isLocked = TRUE],
   hasBuiltDeck |-> TRUE, hasShuffledDeck |-> TRUE, opsError |-> NoError]

\* resetDeck: next builderState, flags and opsError for the shuffled array
\* made from the closure's counts
resetDeckOutcome(shuffled) ==
  [builderState |-> resetDeckUpdater(builderState, shuffled),
   hasBuiltDeck |-> TRUE, hasShuffledDeck |-> TRUE, opsError |-> NoError]

resetDeck ==
  \E shuffled \in shuffleInPlace(buildDeckArray(rendered.builderState)) :
    /\ builderState' = resetDeckOutcome(shuffled).builderState
    /\ hasBuiltDeck' = resetDeckOutcome(shuffled).hasBuiltDeck
    /\ hasShuffledDeck' = resetDeckOutcome(shuffled).hasShuffledDeck
    /\ opsError' = resetDeckOutcome(shuffled).opsError
    /\ UNCHANGED <<play, props, io>>

\* resetBuilder that keeps the hand limit of the session
resetBuilderOutcomeKeepsLimit ==
  [builderState |-> [applyInitialCounts(defaultState) EXCEPT
                       !.handLimit = builderState.handLimit],
   hasBuiltDeck |-> FALSE, hasShuffledDeck |-> FALSE, opsError |-> NoError]

\* resetBuilder: next builderState, flags and opsError
resetBuilderOutcome ==
  [builderState |-> applyInitialCounts(defaultState),
   hasBuiltDeck |-> FALSE, hasShuffledDeck |-> FALSE, opsError |-> NoError]

resetBuilder ==
  /\ builderState' = resetBuilderOutcome.builderState
  /\ hasBuiltDeck' = resetBuilderOutcome.hasBuiltDeck
  /\ hasShuffledDeck' = resetBuilderOutcome.hasShuffledDeck
  /\ opsError' = resetBuilderOutcome.opsError
  /\ UNCHANGED <<play, props, io>>

adjustBaseCount(cardId, delta) ==
  /\ builderState.baseCounts[cardId] + delta <= MaxCount
  /\ builderState' = adjustBaseCountUpdater(builderState, cardId, delta)
  /\ UNCHANGED <<flags, play, opsError, props, io>>

adjustModCount(cardId, delta) ==
  /\ builderState.modCounts[cardId] + delta <= MaxCount
  /\ builderState' = adjustModCountUpdater(builderState, cardId, delta)
  /\ UNCHANGED <<flags, play, opsError, props, io>>

adjustNullCount(delta) ==
  /\ builderState.nullCount + delta <= MaxNulls
  /\ builderState' = adjustNullCountUpdater(builderState, delta)
  /\ UNCHANGED <<flags, play, opsError, props, io>>

adjustModifierCapacity(delta) ==
  /\ builderState.modifierCapacity + delta <= MaxCapacity
  /\ builderState' = adjustModifierCapacityUpdater(builderState, delta)
  /\ UNCHANGED <<flags, play, opsError, props, io>>

setHandLimit(next) ==
  /\ builderState' = setHandLimitUpdater(builderState, next)
  /\ UNCHANGED <<flags, play, opsError, props, io>>

discardFromDeck(count) ==
  /\ builderState' = discardFromDeckUpdater(builderState, count)
  /\ UNCHANGED <<flags, play, opsError, props, io>>

\* returnDiscardToDeck that puts the ids at the other end of the deck
returnDiscardToDeckUpdaterOtherEnd(prev, shuffle, toTop) ==
  LET ids == Ids(prev.discard)
      decks ==
        UNION { LET placed == returnDiscardToDeckPlaced(prev, ids2, ~toTop)
                IN IF shuffle THEN shuffleInPlace(placed) ELSE {placed}
                : ids2 \in (IF shuffle THEN shuffleInPlace(ids) ELSE {ids}) }
  IN { [prev EXCEPT !.deck = deck, !.discard = <<>>] : deck \in decks }

\* the states the updater of returnDiscardToDeck can return: the ids after
\* the first shuffle, placed, then the deck after the second shuffle
returnDiscardToDeckUpdater(prev, shuffle, toTop) ==
  LET ids == Ids(prev.discard)
      decks ==
        UNION { LET placed == returnDiscardToDeckPlaced(prev, ids2, toTop)
                IN IF shuffle THEN shuffleInPlace(placed) ELSE {placed}
                : ids2 \in (IF shuffle THEN shuffleInPlace(ids) ELSE {ids}) }
  IN { [prev EXCEPT !.deck = deck, !.discard = <<>>] : deck \in decks }

returnDiscardToDeck(shuffle, toTop) ==
  /\ builderState' \in returnDiscardToDeckUpdater(builderState, shuffle, toTop)
  /\ UNCHANGED <<flags, play, opsError, props, io>>

returnDiscardGroupToDeck(cardId, all) ==
  /\ builderState' = returnDiscardGroupToDeckUpdater(builderState, cardId, all)
  /\ UNCHANGED <<flags, play, opsError, props, io>>

returnDiscardGroupToHand(cardId, all) ==
  /\ builderState' = returnDiscardGroupToHandUpdater(builderState, cardId, all)
  /\ UNCHANGED <<flags, play, opsError, props, io>>

discardGroupFromHand(cardId, all, origin) ==
  /\ builderState' = discardGroupFromHandUpdater(builderState, cardId, all, origin)
  /\ UNCHANGED <<flags, play, opsError, props, io>>

\* startPlayBase that drops the selection when it reports an error
startPlayBaseOutcomeDropping(cardId) ==
  IF cardId = nullId
    THEN [activePlay |-> NoPlay, attachWarningId |-> attachWarningId,
          opsError |-> NullOnlyMsg]
  ELSE IF cardId \in ModIds
    THEN [activePlay |-> NoPlay, attachWarningId |-> attachWarningId,
          opsError |-> BaseFirstPlayMsg]
  ELSE [activePlay |-> startPlaySelection(activePlay, cardId),
        attachWarningId |-> NoWarning, opsError |-> NoError]

\* startPlayBase: next activePlay, attachWarningId and opsError
startPlayBaseOutcome(cardId) ==
  IF cardId = nullId
    THEN [activePlay |-> activePlay, attachWarningId |-> attachWarningId,
          opsError |-> NullOnlyMsg]
  ELSE IF cardId \in ModIds
    THEN [activePlay |-> activePlay, attachWarningId |-> attachWarningId,
          opsError |-> BaseFirstPlayMsg]
  ELSE [activePlay |-> startPlaySelection(activePlay, cardId),
        attachWarningId |-> NoWarning, opsError |-> NoError]

\* startPlayBase that takes the selected card out of the hand
startPlayBaseTakingCard(cardId) ==
  /\ activePlay' = startPlayBaseOutcome(cardId).activePlay
  /\ attachWarningId' = startPlayBaseOutcome(cardId).attachWarningId
  /\ opsError' = startPlayBaseOutcome(cardId).opsError
  /\ builderState' = discardGroupFromHandUpdater(builderState, cardId, FALSE, "played")
  /\ UNCHANGED <<flags, props, io>>

startPlayBase(cardId) ==
  /\ activePlay' = startPlayBaseOutcome(cardId).activePlay
  /\ attachWarningId' = startPlayBaseOutcome(cardId).attachWarningId
  /\ opsError' = startPlayBaseOutcome(cardId).opsError
  /\ UNCHANGED <<builderState, flags, props, io>>

\* attachModifier that checks the modifier set before the selected base
attachModifierOutcomeModifierFirst(cardId) ==
  IF cardId = nullId
    THEN [activePlay |-> activePlay, attachWarningId |-> attachWarningId,
          opsError |-> NullOnlyMsg]
  ELSE IF cardId \notin ModIds
    THEN [activePlay |-> activePlay, attachWarningId |-> attachWarningId,
          opsError |-> opsError]
  ELSE IF rendered.activePlay = NoPlay
    THEN [activePlay |-> activePlay, attachWarningId |-> cardId,
          opsError |-> BaseFirstAttachMsg]
  ELSE [activePlay |-> toggleAttach(activePlay, cardId, rendered.builderState.hand,
                                    rendered.builderState.modifierCapacity),
        attachWarningId |-> NoWarning, opsError |-> NoError]

\* attachModifier that takes the hand and the capacity from the live state
\* and attaches without looking at them
attachModifierOutcomeUnchecked(cardId) ==
  IF cardId = nullId
    THEN [activePlay |-> activePlay, attachWarningId |-> attachWarningId,
          opsError |-> NullOnlyMsg]
  ELSE IF rendered.activePlay = NoPlay
    THEN [activePlay |-> activePlay, attachWarningId |-> cardId,
          opsError |-> BaseFirstAttachMsg]
  ELSE IF cardId \notin ModIds
    THEN [activePlay |-> activePlay, attachWarningId |-> attachWarningId,
          opsError |-> opsError]
  ELSE [activePlay |-> IF Includes(activePlay.mods, cardId)
                         THEN toggleAttach(activePlay, cardId,
                                           rendered.builderState.hand,
                                           rendered.builderState.modifierCapacity)
                       ELSE [activePlay EXCEPT !.mods = Append(@, cardId)],
        attachWarningId |-> NoWarning, opsError |-> NoError]

\* attachModifier: next activePlay, attachWarningId and opsError; the base
\* check, the hand counts and the capacity are read from the render, the
\* toggle is applied to the live selection
attachModifierOutcome(cardId) ==
  IF cardId = nullId
    THEN [activePlay |-> activePlay, attachWarningId |-> attachWarningId,
          opsError |-> NullOnlyMsg]
  ELSE IF rendered.activePlay = NoPlay
    THEN [activePlay |-> activePlay, attachWarningId |-> cardId,
          opsError |-> BaseFirstAttachMsg]
  ELSE IF cardId \notin ModIds
    THEN [activePlay |-> activePlay, attachWarningId |-> attachWarningId,
          opsError |-> opsError]
  ELSE [activePlay |-> toggleAttach(activePlay, cardId, rendered.builderState.hand,
                                    rendered.builderState.modifierCapacity),
        attachWarningId |-> NoWarning, opsError |-> NoError]

attachModifier(cardId) ==
  /\ activePlay' = attachModifierOutcome(cardId).activePlay
  /\ attachWarningId' = attachModifierOutcome(cardId).attachWarningId
  /\ opsError' = attachModifierOutcome(cardId).opsError
  /\ UNCHANGED <<builderState, flags, props, io>>

RECURSIVE discardEach(_, _)
\* sel.mods.forEach((m) => discardGroupFromHand(m, false, 'played'))
discardEach(state, mods) ==
  IF mods = <<>> THEN state
  ELSE discardEach(discardGroupFromHandUpdater(state, Head(mods), FALSE, "played"),
                   Tail(mods))

\* finalizePlay: next builderState and activePlay; the selection is read
\* from the render, the discards are applied to the live state
finalizePlayOutcome ==
  LET sel == finalizeSelection(rendered.activePlay)
  IN IF sel = NoPlay
       THEN [builderState |-> builderState, activePlay |-> activePlay]
     ELSE [builderState |->
             discardEach(discardGroupFromHandUpdater(builderState, sel.baseId,
                                                     FALSE, "played"), sel.mods),
           activePlay |-> NoPlay]

finalizePlay ==
  /\ builderState' = finalizePlayOutcome.builderState
  /\ activePlay' = finalizePlayOutcome.activePlay
  /\ UNCHANGED <<flags, attachWarningId, opsError, props, io>>

\* cancelPlay that keeps a selection with attached modifiers
cancelPlayOutcomeKeepsAttached ==
  [builderState |-> builderState,
   activePlay |-> IF activePlay.mods # <<>> THEN activePlay
                  ELSE cancelSelection(rendered.activePlay)]

\* cancelPlay: next builderState and activePlay (setBuilderState is not
\* called)
cancelPlayOutcome ==
  [builderState |-> builderState,
   activePlay |-> cancelSelection(rendered.activePlay)]

cancelPlay ==
  /\ builderState' = cancelPlayOutcome.builderState
  /\ activePlay' = cancelPlayOutcome.activePlay
  /\ UNCHANGED <<flags, attachWarningId, opsError, props, io>>

\* the component re-renders: the handlers close over the current state
Render ==
  /\ rendered' = View
  /\ UNCHANGED <<builderState, flags, play, opsError, props, io>>

\* the re-render that follows a command before the next event is handled
Sync == rendered' = View'

(* ---------------------------------------------------------------------- *)
(* loadState: the stored record and the values JSON.parse hands out        *)
(* ---------------------------------------------------------------------- *)
\* a property that is undefined or null (both are replaced by `??`)
Absent == [absent |-> TRUE]
\* a string that is not a number, e.g. "abc" (a number is Parsed(k))
Abc == [string |-> "abc"]
\* any other value: a boolean, an array, an object as a function of its keys
Value(v) == [value |-> v]
IsNumber(v) == DOMAIN v = {"nan", "n"} /\ ~v.nan

\* a ?? d
Nullish(a, d) == IF a = Absent THEN d ELSE a

\* clamp(value, min, max) of a value that need not be a number: a comparison
\* with a non-numeric string is false, the value is returned as it is
clampValue(value, min, max) ==
  IF IsNumber(value) THEN Parsed(clamp(value.n, min, max)) ELSE value

\* Math.max(value, min): NaN unless value is a number
mathMax(value, min) ==
  IF IsNumber(value) THEN Parsed(Max(value.n, min)) ELSE NaN

\* { ...buildInitialCounts(cards), ...counts }
mergeCounts(ids, counts) ==
  IF counts = Absent THEN Value([id \in ids |-> 0])
  ELSE Value([id \in ids |-> IF id \in DOMAIN counts.value THEN counts.value[id] ELSE 0])

\* a DeckBuilderState as JSON.parse would hand it out: every field a value
\* of the kinds above
jsState(state) ==
  [ baseCounts |-> Value(state.baseCounts),
    modCounts |-> Value(state.modCounts),
    nullCount |-> Parsed(state.nullCount),
    modifierCapacity |-> Parsed(state.modifierCapacity),
    hasBuiltDeck |-> Value(state.hasBuiltDeck),
    hasShuffledDeck |-> Value(state.hasShuffledDeck),
    deck |-> Value(state.deck),
    hand |-> Value(state.hand),
    discard |-> Value(state.discard),
    isLocked |-> Value(state.isLocked),
    handLimit |-> Parsed(state.handLimit) ]

\* what localStorage.getItem(storageKey) returns: null (or ''), text that
\* JSON.parse rejects, the text of null, of a number/string/boolean, or of
\* an object with the given fields
NoItem == [kind |-> "none"]
JsonObject(fields) == [kind |-> "object", fields |-> fields]

\* loadState: no item, or a throw inside the try (JSON.parse of garbage,
\* a property read on null), gives the default state; otherwise the
\* fields are taken one by one (a property of a number, string or boolean
\* is undefined)
loadState(raw) ==
  IF raw.kind \in {"none", "garbage", "null"} THEN jsState(defaultState)
  ELSE LET parsed == IF raw.kind = "object" THEN raw.fields
                     ELSE [f \in DOMAIN jsState(defaultState) |-> Absent]
       IN [ baseCounts |-> mergeCounts(BaseIds, parsed.baseCounts),
            modCounts |-> mergeCounts(ModIds, parsed.modCounts),
            nullCount |-> mathMax(Nullish(parsed.nullCount, Parsed(minNulls)), minNulls),
            modifierCapacity |-> Nullish(parsed.modifierCapacity,
                                         Parsed(modifierCapacityDefault)),
            hasBuiltDeck |-> Nullish(parsed.hasBuiltDeck, Value(FALSE)),
            hasShuffledDeck |-> Nullish(parsed.hasShuffledDeck, Value(FALSE)),
            deck |-> Nullish(parsed.deck, Value(<<>>)),
            hand |-> Nullish(parsed.hand, Value(<<>>)),
            discard |-> Nullish(parsed.discard, Value(<<>>)),
            isLocked |-> Nullish(parsed.isLocked, Value(FALSE)),
            handLimit |-> clampValue(Nullish(parsed.handLimit,
                                             Parsed(DEFAULT_HAND_LIMIT)),
                                     0, MAX_HAND_LIMIT) ]

\* the stored records explored: each field absent or present, the two
\* numeric fields of the claim also below and above their range and as a
\* string
StoredFields ==
  [ baseCounts : {Absent} \cup {Value(m) : m \in [BaseIds -> {1}]},
    modCounts : {Absent, Value([id \in {} |-> 0])},
    nullCount : {Absent, Abc} \cup {Parsed(k) : k \in {0, minNulls + 1}},
    modifierCapacity : {Absent, Parsed(MaxCapacity)},
    hasBuiltDeck : {Absent, Value(TRUE)},
    hasShuffledDeck : {Absent, Value(TRUE)},
    deck : {Absent, Value(<<nullId>>)},
    hand : {Absent},
    discard : {Absent},
    isLocked : {Absent, Value(TRUE)},
    handLimit : {Absent, Abc} \cup
                {Parsed(k) : k \in {-1, 0, MAX_HAND_LIMIT, MAX_HAND_LIMIT + 1}} ]

StoredTexts ==
  {NoItem} \cup {[kind |-> k] : k \in {"garbage", "null", "scalar"}} \cup {JsonObject(f) : f \in StoredFields}

\* the component mounts, once per page load: loadState reads the stored text
mount(raw) ==
  /\ loaded.raw = NoItem
  /\ loaded' = [raw |-> raw, state |-> loadState(raw)]
  /\ UNCHANGED <<builderState, flags, play, opsError, props, rendered, storage, importPhase, pending, backup, exported>>

(* ---------------------------------------------------------------------- *)
(* localStorage and the files of ImportExportJSON                          *)
(* ---------------------------------------------------------------------- *)
\* keys with and without STORAGE_PREFIX
CollapseKeys == {"collapse.a", "collapse.b"}
OtherKeys == {"theme"}
StorageKeys == CollapseKeys \cup OtherKeys
\* key.startsWith(STORAGE_PREFIX)
isCollapseKey(key) == key \in CollapseKeys

\* values of JSON: a string with the given characters, or any other value
\* (number, object, ...) named by x
Str(x) == [str |-> TRUE, x |-> x]
Val(x) == [str |-> FALSE, x |-> x]

\* stored texts: no item (getItem(key) === null); the text JSON.stringify
\* gives for a value; another JSON text of the same value (other spacing);
\* text that JSON.parse rejects
NoText == [kind |-> "none", v |-> Str("")]
JsonText(v) == [kind |-> "json", v |-> v]
SpacedText(v) == [kind |-> "spaced", v |-> v]
RawText(x) == [kind |-> "raw", v |-> Str(x)]

\* an object as a function from its keys to values
NoEntries == [k \in {} |-> Val("v1")]

\* files: none chosen; text that is not JSON; the JSON text of null, a
\* number, a string or a boolean; the JSON text of an object with the
\* entries top and, if wrapped, a key data holding the object data (keys
\* such as meta that no rule looks at are left out)
NoFile == [kind |-> "none"]
ObjectFile(top, wrapped, data) ==
  [kind |-> "object", top |-> top, wrapped |-> wrapped, data |-> data]

\* try { data[key] = JSON.parse(raw) } catch { data[key] = raw }
parseOrRaw(text) ==
  IF text.kind \in {"json", "spaced"} THEN text.v ELSE Str(text.v.x)

\* snapshotCollapseData: the parsed value, or the raw text, of every
\* stored key of the namespace
snapshotCollapseData(st) ==
  [k \in {key \in CollapseKeys : st[key] # NoText} |-> parseOrRaw(st[k])]

\* removeCollapseData that removes nothing
removeCollapseDataNone(st) == st

\* removeCollapseData: every key of the namespace is removed
removeCollapseData(st) ==
  [k \in StorageKeys |-> IF isCollapseKey(k) THEN NoText ELSE st[k]]

\* persistCollapseEntries: localStorage.setItem(k, JSON.stringify(v)) for
\* every entry (JSON.stringify does not throw on a value JSON.parse gave)
persistCollapseEntries(st, entries) ==
  [k \in StorageKeys |-> IF k \in DOMAIN entries THEN JsonText(entries[k]) ELSE st[k]]

\* filterCollapseEntries
filterCollapseEntries(obj) ==
  [k \in {key \in DOMAIN obj : isCollapseKey(key)} |-> obj[k]]

\* parsed.data && typeof parsed.data === 'object' ? parsed.data : parsed
importedData(file) == IF file.wrapped THEN file.data ELSE file.top

\* the payload of handleExportAll: { meta, data: snapshot }
exportPayload(st) == ObjectFile(NoEntries, TRUE, snapshotCollapseData(st))

\* handleFile up to the confirmation, with the removal done before the
\* file is looked at
importStartOutcomeRemoveFirst(file) ==
  IF \/ file.kind \in {"garbage", "scalar"}
     \/ filterCollapseEntries(importedData(file)) = NoEntries
    THEN [importPhase |-> "failed", pending |-> pending, backup |-> backup,
          storage |-> removeCollapseData(storage)]
    ELSE [importPhase |-> "confirm", pending |-> importedData(file),
          backup |-> exportPayload(storage), storage |-> storage]

\* handleFile up to the confirmation: text that is not JSON, a non-object
\* and an object without a key of the namespace throw into the catch
\* ('Import failed'); otherwise the backup is downloaded and the
\* confirmation is asked
importStartOutcome(file) ==
  IF \/ file.kind \in {"garbage", "scalar"}
     \/ filterCollapseEntries(importedData(file)) = NoEntries
    THEN [importPhase |-> "failed", pending |-> pending, backup |-> backup,
          storage |-> storage]
    ELSE [importPhase |-> "confirm", pending |-> importedData(file),
          backup |-> exportPayload(storage), storage |-> storage]

\* no confirmation dialog is open and no import is half done
ImportIdle == importPhase \notin {"confirm", "removed"}

\* a file is chosen
importStart(file) ==
  /\ ImportIdle
  /\ LET o == importStartOutcome(file)
     IN /\ importPhase' = o.importPhase
        /\ pending' = o.pending
        /\ backup' = o.backup
        /\ storage' = o.storage
  /\ UNCHANGED <<builderState, flags, play, opsError, props, rendered, loaded, exported>>

\* window.confirm returns: declined, handleFile returns; accepted,
\* removeCollapseData() runs
importConfirm(ok) ==
  /\ importPhase = "confirm"
  /\ IF ok
       THEN importPhase' = "removed" /\ storage' = removeCollapseData(storage)
       ELSE importPhase' = "cancelled" /\ UNCHANGED storage
  /\ UNCHANGED <<builderState, flags, play, opsError, props, rendered, loaded, pending, backup, exported>>

\* persistCollapseEntries(collapseEntries)
importWrite ==
  /\ importPhase = "removed"
  /\ importPhase' = "complete"
  /\ storage' = persistCollapseEntries(storage, filterCollapseEntries(pending))
  /\ UNCHANGED <<builderState, flags, play, opsError, props, rendered, loaded, pending, backup, exported>>

\* handleExportAll: nothing is downloaded when the snapshot is empty
handleExportAll ==
  /\ ImportIdle
  /\ exported' = IF snapshotCollapseData(storage) = NoEntries THEN exported
                 ELSE exportPayload(storage)
  /\ UNCHANGED <<builderState, flags, play, opsError, props, rendered, loaded, storage, importPhase, pending, backup>>

\* the stored texts, the values of files and the files explored
FileValues == {Val("v1"), Str("hello")}
Texts ==
  {NoText, RawText("hello")} \cup {JsonText(v) : v \in FileValues}
    \cup {SpacedText(Val("v1"))}
Storages ==
  {st \in [StorageKeys -> Texts] :
     \A k \in OtherKeys : st[k] \in {NoText, RawText("hello")}}
Objects ==
  UNION {[keys -> FileValues] : keys \in SUBSET StorageKeys}
Files ==
  {[kind |-> k] : k \in {"garbage", "scalar"}}
    \cup {ObjectFile(top, FALSE, NoEntries) : top \in Objects}
    \cup {ObjectFile(top, TRUE, data) :
            top \in {NoEntries, [k \in {"collapse.a"} |-> Val("v1")]},
            data \in Objects}

\* no import or export has run, nothing is stored
IoIdle ==
  /\ loaded = [raw |-> NoItem, state |-> loadState(NoItem)]
  /\ storage = [k \in StorageKeys |-> NoText]
  /\ importPhase = "idle"
  /\ pending = NoEntries
  /\ backup = NoFile
  /\ exported = NoFile

(* ---------------------------------------------------------------------- *)
(* Initial states: applyInitialCounts(loadState(...)) of a stored record   *)
(* ---------------------------------------------------------------------- *)
\* compositions the builder can have stored: base total <= baseTarget,
\* modifier cost total within the default capacity, nullCount >= minNulls
Compositions ==
  { [defaultState EXCEPT !.baseCounts = b, !.modCounts = m, !.nullCount = n] :
      b \in {x \in [BaseIds -> 0..MaxCount] : sumCounts(x) <= baseTarget},
      m \in {x \in [ModIds -> 0..MaxCount] :
               SumOver([id \in ModIds |-> x[id] * Cost(id)], ModIds)
                 <= modifierCapacityDefault},
      n \in minNulls..MaxNulls }

\* the component state after mounting with the given record
InitDeckBuilder(stored) ==
  /\ simpleCounters = FALSE
  /\ modCapacityAsCount = FALSE
  /\ builderState = applyInitialCounts(stored)
  /\ hasBuiltDeck = builderState.hasBuiltDeck
  /\ hasShuffledDeck = builderState.hasShuffledDeck
  /\ activePlay = NoPlay
  /\ attachWarningId = NoWarning
  /\ opsError = NoError
  /\ rendered = View

InitWith(stored) == InitDeckBuilder(stored) /\ IoIdle

\* an unlocked builder with a stored composition
Init == \E stored \in Compositions : InitWith(stored)

(* ---------------------------------------------------------------------- *)
(* Spec: the deck session (lifecycle, zones, hand limit), one command per  *)
(* event                                                                   *)
(* ---------------------------------------------------------------------- *)
Next ==
  \/ \E confirmed \in BOOLEAN : shuffleDeck(confirmed) /\ Sync
  \/ \E eager \in BOOLEAN : handleDraw(eager) /\ Sync
  \/ toggleLockDeck /\ Sync
  \/ resetDeck /\ Sync
  \/ resetBuilder /\ Sync
  \/ \E next \in HandInputs : setHandLimit(next) /\ Sync
  \/ \E count \in DiscardCounts : discardFromDeck(count) /\ Sync
  \/ \E shuffle \in BOOLEAN, toTop \in BOOLEAN : returnDiscardToDeck(shuffle, toTop) /\ Sync
  \/ \E cardId \in CardIds, all \in BOOLEAN : returnDiscardGroupToDeck(cardId, all) /\ Sync
  \/ \E cardId \in CardIds, all \in BOOLEAN : returnDiscardGroupToHand(cardId, all) /\ Sync
  \/ \E cardId \in CardIds, all \in BOOLEAN :
       discardGroupFromHand(cardId, all, "discarded") /\ Sync

Spec == Init /\ [][Next]_vars

(* ---------------------------------------------------------------------- *)
(* SpecPlay: the play selection over the zones, one command per event      *)
(* ---------------------------------------------------------------------- *)
InitPlay ==
  \E stored \in {c \in Compositions :
                   c.nullCount = minNulls /\ sumCounts(c.baseCounts) >= 1} :
    InitWith(stored)

NextPlay ==
  \/ \E confirmed \in BOOLEAN : shuffleDeck(confirmed) /\ Sync
  \/ \E eager \in BOOLEAN : handleDraw(eager) /\ Sync
  \/ toggleLockDeck /\ Sync
  \/ \E count \in DiscardCounts : discardFromDeck(count) /\ Sync
  \/ \E shuffle \in BOOLEAN, toTop \in BOOLEAN : returnDiscardToDeck(shuffle, toTop) /\ Sync
  \/ \E cardId \in CardIds, all \in BOOLEAN : returnDiscardGroupToDeck(cardId, all) /\ Sync
  \/ \E cardId \in CardIds, all \in BOOLEAN : returnDiscardGroupToHand(cardId, all) /\ Sync
  \/ \E cardId \in CardIds, all \in BOOLEAN :
       discardGroupFromHand(cardId, all, "discarded") /\ Sync
  \/ \E cardId \in CardIds : startPlayBase(cardId) /\ Sync
  \/ \E cardId \in CardIds : attachModifier(cardId) /\ Sync
  \/ finalizePlay /\ Sync
  \/ cancelPlay /\ Sync

SpecPlay == InitPlay /\ [][NextPlay]_vars

(* ---------------------------------------------------------------------- *)
(* SpecLoaded: the session started from a stored record whose lifecycle    *)
(* flags are arbitrary (loadState takes isLocked, hasBuiltDeck and         *)
(* hasShuffledDeck from the record as they are)                            *)
(* ---------------------------------------------------------------------- *)
LoadedRecords ==
  { [c EXCEPT !.isLocked = l, !.hasBuiltDeck = b, !.hasShuffledDeck = sh] :
      c \in {x \in Compositions : x.nullCount = minNulls /\ sumCounts(x.modCounts) = 0},
      l \in BOOLEAN, b \in BOOLEAN, sh \in BOOLEAN }

InitLoaded == \E stored \in LoadedRecords : InitWith(stored)

SpecLoaded == InitLoaded /\ [][Next]_vars

(* ---------------------------------------------------------------------- *)
(* SpecBatched: commands issued against one render; the re-render is a     *)
(* step of its own                                                         *)
(* ---------------------------------------------------------------------- *)
InitBatched ==
  \E stored \in {c \in Compositions : sumCounts(c.modCounts) = 0} : InitWith(stored)

NextBatched ==
  \/ \E confirmed \in BOOLEAN : shuffleDeck(confirmed) /\ UNCHANGED rendered
  \/ \E eager \in BOOLEAN : handleDraw(eager) /\ UNCHANGED rendered
  \/ toggleLockDeck /\ UNCHANGED rendered
  \/ \E cardId \in BaseIds, delta \in Deltas :
       adjustBaseCount(cardId, delta) /\ UNCHANGED rendered
  \/ Render

SpecBatched == InitBatched /\ [][NextBatched]_vars

(* ---------------------------------------------------------------------- *)
(* SpecCounts: the composition counters, in each counting mode             *)
(* ---------------------------------------------------------------------- *)
InitCounts ==
  /\ simpleCounters \in BOOLEAN
  /\ modCapacityAsCount \in BOOLEAN
  /\ builderState = applyInitialCounts(defaultState)
  /\ hasBuiltDeck = builderState.hasBuiltDeck
  /\ hasShuffledDeck = builderState.hasShuffledDeck
  /\ activePlay = NoPlay
  /\ attachWarningId = NoWarning
  /\ opsError = NoError
  /\ rendered = View
  /\ IoIdle

NextCounts ==
  \/ \E cardId \in BaseIds, delta \in Deltas : adjustBaseCount(cardId, delta) /\ Sync
  \/ \E cardId \in ModIds, delta \in Deltas : adjustModCount(cardId, delta) /\ Sync
  \/ \E delta \in Deltas : adjustNullCount(delta) /\ Sync
  \/ \E delta \in Deltas : adjustModifierCapacity(delta) /\ Sync
  \/ resetBuilder /\ Sync

SpecCounts == InitCounts /\ [][NextCounts]_vars

(* ---------------------------------------------------------------------- *)
(* SpecBuilder: the default builder with the lifecycle commands and the    *)
(* count adjusters                                                         *)
(* ---------------------------------------------------------------------- *)
InitBuilder == InitWith(defaultState)

NextBuilder ==
  \/ \E cardId \in BaseIds, delta \in Deltas : adjustBaseCount(cardId, delta) /\ Sync
  \/ \E cardId \in ModIds, delta \in Deltas : adjustModCount(cardId, delta) /\ Sync
  \/ \E delta \in Deltas : adjustNullCount(delta) /\ Sync
  \/ toggleLockDeck /\ Sync
  \/ \E confirmed \in BOOLEAN : shuffleDeck(confirmed) /\ Sync
  \/ \E eager \in BOOLEAN : handleDraw(eager) /\ Sync
  \/ resetDeck /\ Sync
  \/ resetBuilder /\ Sync

SpecBuilder == InitBuilder /\ [][NextBuilder]_vars

(* ---------------------------------------------------------------------- *)
(* SpecSelect: the play selection next to the commands that empty the      *)
(* hand or change the capacity (lock toggle, resets, discards from hand,   *)
(* capacity adjuster)                                                      *)
(* ---------------------------------------------------------------------- *)
NextSelect ==
  \/ \E confirmed \in BOOLEAN : shuffleDeck(confirmed) /\ Sync
  \/ \E eager \in BOOLEAN : handleDraw(eager) /\ Sync
  \/ toggleLockDeck /\ Sync
  \/ resetDeck /\ Sync
  \/ resetBuilder /\ Sync
  \/ \E delta \in Deltas : adjustModifierCapacity(delta) /\ Sync
  \/ \E cardId \in CardIds, all \in BOOLEAN :
       discardGroupFromHand(cardId, all, "discarded") /\ Sync
  \/ \E cardId \in CardIds : startPlayBase(cardId) /\ Sync
  \/ \E cardId \in CardIds : attachModifier(cardId) /\ Sync
  \/ finalizePlay /\ Sync
  \/ cancelPlay /\ Sync

SpecSelect == InitPlay /\ [][NextSelect]_vars

(* ---------------------------------------------------------------------- *)
(* SpecLimit: the hand-limit input with numbers on both sides of the       *)
(* range, next to lock, shuffle, draw and discard from hand                *)
(* ---------------------------------------------------------------------- *)
LimitInputs ==
  HandInputs \cup
    {Parsed(k) : k \in (MAX_HAND_LIMIT - 1)..(MAX_HAND_LIMIT + MaxHandInput)}

NextLimit ==
  \/ \E next \in LimitInputs : setHandLimit(next) /\ Sync
  \/ toggleLockDeck /\ Sync
  \/ \E confirmed \in BOOLEAN : shuffleDeck(confirmed) /\ Sync
  \/ \E eager \in BOOLEAN : handleDraw(eager) /\ Sync
  \/ \E cardId \in CardIds, all \in BOOLEAN :
       discardGroupFromHand(cardId, all, "discarded") /\ Sync

SpecLimit == InitPlay /\ [][NextLimit]_vars

(* ---------------------------------------------------------------------- *)
(* SpecReset: resetBuilder after the fields it resets have been changed    *)
(* (counts, capacity, hand limit, lock, zones), in each counting mode      *)
(* ---------------------------------------------------------------------- *)
NextReset ==
  \/ \E cardId \in BaseIds, delta \in Deltas : adjustBaseCount(cardId, delta) /\ Sync
  \/ \E delta \in Deltas : adjustModifierCapacity(delta) /\ Sync
  \/ \E next \in HandInputs : setHandLimit(next) /\ Sync
  \/ toggleLockDeck /\ Sync
  \/ \E confirmed \in BOOLEAN : shuffleDeck(confirmed) /\ Sync
  \/ \E eager \in BOOLEAN : handleDraw(eager) /\ Sync
  \/ resetBuilder /\ Sync

SpecReset == InitCounts /\ [][NextReset]_vars

(* ---------------------------------------------------------------------- *)
(* SpecLoad: loadState applied to the stored texts                         *)
(* ---------------------------------------------------------------------- *)
NextLoad == \E raw \in StoredTexts : mount(raw)

SpecLoad == InitBuilder /\ [][NextLoad]_vars

(* ---------------------------------------------------------------------- *)
(* SpecImport: export and import over the stored texts                     *)
(* ---------------------------------------------------------------------- *)
InitImport ==
  /\ InitDeckBuilder(defaultState)
  /\ loaded = [raw |-> NoItem, state |-> loadState(NoItem)]
  /\ storage \in Storages
  /\ importPhase = "idle"
  /\ pending = NoEntries
  /\ backup = NoFile
  /\ exported = NoFile

NextImport ==
  \/ \E file \in Files : importStart(file)
  \/ \E ok \in BOOLEAN : importConfirm(ok)
  \/ importWrite
  \/ handleExportAll

SpecImport == InitImport /\ [][NextImport]_vars

(* ====================================================================== *)
(* Claims                                                                  *)
(* ====================================================================== *)
\* number of cards with the id in deck + hand + discard
ZoneCount(bs, id) ==
  CountId(bs.deck, id) + CountEntry(bs.hand, id) + CountEntry(bs.discard, id)

\* number of cards with the id the composition asks for
CompCount(bs, id) ==
  IF id \in BaseIds THEN bs.baseCounts[id]
  ELSE IF id \in ModIds THEN bs.modCounts[id]
  ELSE bs.nullCount

ZonesEmpty(bs) == bs.deck = <<>> /\ bs.hand = <<>> /\ bs.discard = <<>>

\* Locked-Ready
Ready == builderState.isLocked /\ hasBuiltDeck /\ hasShuffledDeck

\* C1 (SpecPlay; the composition is not edited there, so the multiset
\* materialized at the last lock is the composition's): once a lock has
\* built the deck, after every sequence of draw, discardFromDeck,
\* discardFromHand, finalizePlay, shuffle, returnDiscardToDeck and
\* returnDiscardToHand (and unlock / lock), deck + hand + discard hold, for
\* every card id, exactly the number of cards the lock materialized; before
\* the first lock the zones are empty.
C1_ZoneConservation ==
  IF builderState.isLocked \/ ~ZonesEmpty(builderState)
    THEN \A id \in CardIds : ZoneCount(builderState, id) = CompCount(builderState, id)
  ELSE \A id \in CardIds : ZoneCount(builderState, id) = 0

\* cards in all three zones, a finalized play and a plain discard in discard
C1_Witness ==
  /\ builderState.isLocked
  /\ builderState.deck # <<>>
  /\ builderState.hand # <<>>
  /\ \E i \in 1..Len(builderState.discard) : builderState.discard[i].origin = "played"
  /\ \E i \in 1..Len(builderState.discard) : builderState.discard[i].origin = "discarded"

\* C2 (as claimed): in every reachable state hand.length <= handLimit.
\* setHandLimit stores the clamped input whatever the hand holds.
C2_HandWithinLimit == Len(builderState.hand) <= builderState.handLimit

\* a step that moves the top card of deck to the end of hand
DrawMoved ==
  /\ Len(builderState.deck) > 0
  /\ builderState'.deck = SubSeq(builderState.deck, 1, Len(builderState.deck) - 1)
  /\ builderState'.hand =
       Append(builderState.hand,
              [id |-> builderState.deck[Len(builderState.deck)], state |-> "unspent"])

\* C3 (as claimed, SpecBatched): a card moves from deck to hand only in a
\* state that is locked, built and shuffled.
C3_DrawOnlyWhenReady ==
  [][DrawMoved => (Ready /\ builderState.hasBuiltDeck /\ builderState.hasShuffledDeck)]_vars

\* C4 (SpecLoaded): a draw with a lifecycle precondition missing reports the
\* reason in the order lock, build, shuffle: not locked -> lock reason
\* whatever the other flags are; locked, not built -> build reason; locked,
\* built, not shuffled -> shuffle reason; the reasons are pairwise distinct.
C4_RejectReasonOrder ==
  /\ \A eager \in BOOLEAN :
       LET o == handleDrawOutcome(eager)
       IN /\ ~builderState.isLocked => o.opsError = LockMsg
          /\ (builderState.isLocked /\ ~hasBuiltDeck) => o.opsError = BuildMsg
          /\ (builderState.isLocked /\ hasBuiltDeck /\ ~hasShuffledDeck)
               => o.opsError = ShuffleMsg
  /\ LockMsg # BuildMsg /\ BuildMsg # ShuffleMsg /\ LockMsg # ShuffleMsg

\* a rejected draw of a locked, unbuilt session has reported
C4_Witness ==
  builderState.isLocked /\ ~hasBuiltDeck /\ opsError = BuildMsg

\* C5 (Spec): in Locked-Ready with a card in deck and room in hand, a draw
\* removes exactly the last element of deck and appends {id, unspent} as
\* the last element of hand; the rest of deck, the prior hand entries and
\* discard are unchanged.
C5_DrawEffect ==
  \A eager \in BOOLEAN :
    (Ready /\ Len(builderState.deck) > 0
       /\ Len(builderState.hand) < builderState.handLimit)
    => LET o == handleDrawOutcome(eager).builderState
           n == Len(builderState.deck)
       IN /\ Len(o.deck) = n - 1
          /\ \A i \in 1..(n - 1) : o.deck[i] = builderState.deck[i]
          /\ Len(o.hand) = Len(builderState.hand) + 1
          /\ o.hand[Len(o.hand)] = [id |-> builderState.deck[n], state |-> "unspent"]
          /\ \A i \in 1..Len(builderState.hand) : o.hand[i] = builderState.hand[i]
          /\ o.discard = builderState.discard

\* two draws from a freshly shuffled five-card deck
C5_Witness ==
  /\ Ready
  /\ Len(builderState.hand) = 2
  /\ Len(builderState.deck) = 3
  /\ builderState.discard = <<>>

\* C6 (as claimed): in Locked-Ready with an empty deck a draw changes no
\* zone and reports 'deck depleted', for every hand size up to and
\* including handLimit (the updater taken as run inside setBuilderState).
C6_DepletedAlwaysReported ==
  (Ready /\ builderState.deck = <<>>
     /\ Len(builderState.hand) <= builderState.handLimit)
    => LET o == handleDrawOutcome(TRUE)
       IN o.builderState = builderState /\ o.opsError = DepletedMsg

\* C7 (SpecLoaded): a rejected draw (not locked, not built, not shuffled,
\* deck empty, or hand at the limit) leaves builderState - deck, hand,
\* discard, isLocked, the built and shuffled flags, the composition, the
\* hand limit - as it was (handleDraw and draw assign no other state but
\* opsError).
C7_RejectedDrawNoChange ==
  \A eager \in BOOLEAN :
    (~Ready \/ builderState.deck = <<>>
       \/ Len(builderState.hand) >= builderState.handLimit)
    => handleDrawOutcome(eager).builderState = builderState

\* a draw rejected for the hand limit, with cards left in deck
C7_Witness ==
  /\ Ready
  /\ builderState.deck # <<>>
  /\ builderState.hand # <<>>
  /\ Len(builderState.hand) >= builderState.handLimit

\* C8 (Spec): lock from Unlocked gives isLocked, built, not shuffled, empty
\* hand and discard, a deck that is a permutation of the composition's
\* multiset (so deck.length = base counts + modifier counts + nullCount),
\* the composition unchanged, and the 'shuffle before drawing' notice.
C8_LockEffect ==
  ~builderState.isLocked =>
    \A built \in lockDecks :
      LET o == toggleLockOutcome(built)
      IN /\ o.builderState.isLocked
         /\ o.hasBuiltDeck /\ o.builderState.hasBuiltDeck
         /\ ~o.hasShuffledDeck /\ ~o.builderState.hasShuffledDeck
         /\ o.builderState.hand = <<>>
         /\ o.builderState.discard = <<>>
         /\ \A id \in CardIds :
              CountId(o.builderState.deck, id) = CompCount(builderState, id)
         /\ Len(o.builderState.deck) =
              sumCounts(builderState.baseCounts) + sumCounts(builderState.modCounts)
                + builderState.nullCount
         /\ o.builderState.baseCounts = builderState.baseCounts
         /\ o.builderState.modCounts = builderState.modCounts
         /\ o.builderState.nullCount = builderState.nullCount
         /\ o.opsError = ShuffleMsg

\* a freshly locked deck of 2 base + 1 modifier + 2 null cards
C8_Witness ==
  /\ builderState.isLocked /\ hasBuiltDeck /\ ~hasShuffledDeck
  /\ opsError = ShuffleMsg
  /\ Len(builderState.deck) = 5
  /\ CountId(builderState.deck, "B1") = 2
  /\ CountId(builderState.deck, "M1") = 1
  /\ CountId(builderState.deck, nullId) = 2

\* C9 (Spec): lock issued while locked unlocks: isLocked, built and
\* shuffled become false and nothing else of builderState changes (deck,
\* hand, discard, composition, hand limit).
C9_UnlockToggle ==
  builderState.isLocked =>
    LET o == toggleLockOutcome(<<>>)
    IN /\ o.builderState = [builderState EXCEPT !.isLocked = FALSE,
                                                !.hasBuiltDeck = FALSE,
                                                !.hasShuffledDeck = FALSE]
       /\ ~o.hasBuiltDeck /\ ~o.hasShuffledDeck

\* unlocked again with cards still in all three zones
C9_Witness ==
  /\ ~builderState.isLocked /\ ~hasBuiltDeck /\ ~hasShuffledDeck
  /\ builderState.deck # <<>>
  /\ builderState.hand # <<>>
  /\ builderState.discard # <<>>

\* C10 (as claimed): after an unlock deck, hand and discard are empty and
\* the built and shuffled flags are false.
C10_UnlockClearsZones ==
  builderState.isLocked =>
    LET o == toggleLockOutcome(<<>>)
    IN ZonesEmpty(o.builderState) /\ ~o.hasBuiltDeck /\ ~o.hasShuffledDeck

\* C10 (amended): an unlock resets the built and shuffled flags (the
\* component's and builderState's) and keeps the contents of deck, hand and
\* discard.
C10_UnlockResetsFlagsOnly ==
  builderState.isLocked =>
    LET o == toggleLockOutcome(<<>>)
    IN /\ ~o.hasBuiltDeck /\ ~o.hasShuffledDeck
       /\ ~o.builderState.hasBuiltDeck /\ ~o.builderState.hasShuffledDeck
       /\ o.builderState.deck = builderState.deck
       /\ o.builderState.hand = builderState.hand
       /\ o.builderState.discard = builderState.discard

\* unlocked after a shuffle and draws: flags false, all five cards kept
C10_Witness ==
  /\ ~builderState.isLocked /\ ~hasBuiltDeck /\ ~hasShuffledDeck
  /\ ~builderState.hasBuiltDeck /\ ~builderState.hasShuffledDeck
  /\ Len(builderState.deck) + Len(builderState.hand) + Len(builderState.discard) = 5
  /\ Len(builderState.hand) >= 2

\* the composition counts of a builderState
Counts(bs) == <<bs.baseCounts, bs.modCounts, bs.nullCount>>

\* C11 (as claimed, SpecBuilder): in a locked state adjustBaseCount,
\* adjustModCount and adjustNullCount leave baseCounts, modCounts and
\* nullCount unchanged, for every card id and every delta.
C11_LockedAdjustBlocked ==
  builderState.isLocked =>
    \A delta \in Deltas :
      /\ \A cardId \in BaseIds :
           Counts(adjustBaseCountUpdater(builderState, cardId, delta)) = Counts(builderState)
      /\ \A cardId \in ModIds :
           Counts(adjustModCountUpdater(builderState, cardId, delta)) = Counts(builderState)
      /\ Counts(adjustNullCountUpdater(builderState, delta)) = Counts(builderState)

\* C12 (Spec): a shuffle that takes effect leaves deck with the same length
\* and the same count of every id, and leaves hand and discard as they
\* were, also when cards are in hand or discard.
C12_ShufflePermutes ==
  \A nextDeck \in shuffleInPlace(builderState.deck) :
    LET o == shuffleDeckOutcome(TRUE, nextDeck).builderState
    IN /\ Len(o.deck) = Len(builderState.deck)
       /\ \A id \in CardIds : CountId(o.deck, id) = CountId(builderState.deck, id)
       /\ o.hand = builderState.hand
       /\ o.discard = builderState.discard

\* shuffled, with cards in every zone and more than one card left to shuffle
C12_Witness ==
  /\ Ready
  /\ Len(builderState.deck) >= 2
  /\ builderState.hand # <<>>
  /\ builderState.discard # <<>>

\* C13 (Spec): from Locked-Built-Unshuffled a shuffle gives Locked-Ready
\* whatever the confirmation answer (none is asked); when the deck is
\* already shuffled a declined confirmation leaves builderState (deck
\* order, hand, discard, flags) and the shuffled flag unchanged, and a
\* confirmed one takes effect.
C13_ShuffleConfirm ==
  \A nextDeck \in shuffleInPlace(builderState.deck) :
    /\ (builderState.isLocked /\ hasBuiltDeck /\ ~hasShuffledDeck) =>
         \A confirmed \in BOOLEAN :
           LET o == shuffleDeckOutcome(confirmed, nextDeck)
           IN /\ o.builderState.isLocked /\ o.builderState.hasBuiltDeck
              /\ o.hasShuffledDeck /\ o.builderState.hasShuffledDeck
              /\ o.builderState.deck = nextDeck
    /\ hasShuffledDeck =>
         /\ shuffleDeckOutcome(FALSE, nextDeck).builderState = builderState
         /\ shuffleDeckOutcome(FALSE, nextDeck).hasShuffledDeck = hasShuffledDeck
         /\ shuffleDeckOutcome(TRUE, nextDeck).builderState.deck = nextDeck

\* freshly shuffled after a lock: Locked-Ready, nothing drawn yet
C13_Witness ==
  /\ Ready
  /\ opsError = NoError
  /\ Len(builderState.deck) = 5
  /\ builderState.hand = <<>>
  /\ builderState.discard = <<>>

\* C14 (as claimed, SpecBuilder): in every state reachable from the default
\* state built implies locked and shuffled implies built.
C14_LifecycleConsistent ==
  /\ hasBuiltDeck => builderState.isLocked
  /\ hasShuffledDeck => hasBuiltDeck
  /\ builderState.hasBuiltDeck => builderState.isLocked
  /\ builderState.hasShuffledDeck => builderState.hasBuiltDeck

\* raw number of modifier cards of a builderState
RawModCount(bs) == sumCounts(bs.modCounts)

\* sum over the modifier ids of count x cost
WeightedModCost(bs) == SumOver([id \in ModIds |-> bs.modCounts[id] * Cost(id)], ModIds)

\* capacity used under the counting policy in force
PolicyUsed(bs) == IF modCapacityAsCount THEN RawModCount(bs) ELSE WeightedModCost(bs)

\* C15 (as claimed, SpecCounts; here for the builders without simple
\* counters): after every successful adjustModCount, in sequences that
\* also hold adjustModifierCapacity calls and negative deltas, the capacity
\* used is <= modifierCapacity.
C15_CapacityAfterAdjust ==
  ~simpleCounters =>
    \A cardId \in ModIds, delta \in Deltas :
      LET o == adjustModCountUpdater(builderState, cardId, delta)
      IN o.modCounts # builderState.modCounts
           => getModUsedSnapshot(o) <= o.modifierCapacity

\* C16 (SpecCounts): with the base target enforced (no simple counters) an
\* adjustBaseCount that would take the base total above baseTarget leaves
\* the state unchanged, so the base total never exceeds baseTarget; with
\* the capacity enforced, an adjustModCount with a positive delta for a
\* card the capacity policy refuses leaves the state unchanged.
C16_ExceedingAdjustNoOp ==
  /\ ~simpleCounters =>
       /\ sumCounts(builderState.baseCounts) <= baseTarget
       /\ \A cardId \in BaseIds, delta \in Deltas :
            LET current == builderState.baseCounts[cardId]
                wanted == Max(current + delta, 0)
            IN sumCounts(builderState.baseCounts) - current + wanted > baseTarget
                 => adjustBaseCountUpdater(builderState, cardId, delta) = builderState
  /\ ~(simpleCounters /\ modCapacityAsCount) =>
       \A cardId \in ModIds, delta \in {d \in Deltas : d > 0} :
         (IF modCapacityAsCount
            THEN RawModCount(builderState) >= builderState.modifierCapacity
          ELSE WeightedModCost(builderState) + Cost(cardId) > builderState.modifierCapacity)
         => adjustModCountUpdater(builderState, cardId, delta) = builderState

\* the default builder with the base target reached and the capacity used up
C16_Witness ==
  /\ ~simpleCounters /\ ~modCapacityAsCount
  /\ sumCounts(builderState.baseCounts) = baseTarget
  /\ builderState.modifierCapacity = modifierCapacityDefault
  /\ WeightedModCost(builderState) = builderState.modifierCapacity
  /\ RawModCount(builderState) > 0

\* C17 (SpecCounts): the snapshot test is true iff usage + cost(cardId) <=
\* capacity under the cost-weighted policy, iff raw modifier count <
\* capacity under the slot-counted policy, and always with simple counters
\* and capacity-as-count together; the live test gives the answer of the
\* snapshot test on the state of the render.
C17_CanAddModifier ==
  \A cardId \in ModIds :
    /\ canAddModCardSnapshot(builderState, cardId) =
         (IF simpleCounters /\ modCapacityAsCount THEN TRUE
          ELSE IF modCapacityAsCount
            THEN RawModCount(builderState) < builderState.modifierCapacity
          ELSE WeightedModCost(builderState) + Cost(cardId)
                 <= builderState.modifierCapacity)
    /\ canAddModCard(cardId) = canAddModCardSnapshot(rendered.builderState, cardId)

\* slot counting with every slot taken: the test answers false
C17_Witness ==
  /\ modCapacityAsCount /\ ~simpleCounters
  /\ RawModCount(builderState) > 0
  /\ RawModCount(builderState) = builderState.modifierCapacity
  /\ \A cardId \in ModIds : ~canAddModCard(cardId)

\* C18 (SpecCounts): the validator of a render is a function of the state:
\* baseValid = (base total = baseTarget) or simple counters; nullValid =
\* (nullCount >= minNulls); modValid = (capacity used <= modifierCapacity)
\* or (simple counters and capacity-as-count); deckIsValid = all three.
C18_Validator ==
  /\ baseValid = (sumCounts(builderState.baseCounts) = baseTarget \/ simpleCounters)
  /\ nullValid = (builderState.nullCount >= minNulls)
  /\ modValid = (PolicyUsed(builderState) <= builderState.modifierCapacity
                   \/ (simpleCounters /\ modCapacityAsCount))
  /\ deckIsValid = (baseValid /\ nullValid /\ modValid)

\* a valid composition whose capacity is exactly used up
C18_Witness ==
  /\ ~simpleCounters
  /\ deckIsValid
  /\ PolicyUsed(builderState) > 0
  /\ PolicyUsed(builderState) = builderState.modifierCapacity

\* C19 (SpecCounts): every base and modifier count is >= 0,
\* modifierCapacity >= 0 and nullCount >= minNulls, in every reachable
\* state and after every adjust command with a positive or negative delta.
C19_WellFormed ==
  LET WellFormed(bs) ==
        /\ \A id \in BaseIds : bs.baseCounts[id] >= 0
        /\ \A id \in ModIds : bs.modCounts[id] >= 0
        /\ bs.modifierCapacity >= 0
        /\ bs.nullCount >= minNulls
  IN /\ WellFormed(builderState)
     /\ \A delta \in Deltas :
          /\ \A cardId \in BaseIds :
               WellFormed(adjustBaseCountUpdater(builderState, cardId, delta))
          /\ \A cardId \in ModIds :
               WellFormed(adjustModCountUpdater(builderState, cardId, delta))
          /\ WellFormed(adjustNullCountUpdater(builderState, delta))
          /\ WellFormed(adjustModifierCapacityUpdater(builderState, delta))

\* every counter at its floor, the capacity lowered to 0
C19_Witness ==
  /\ ~simpleCounters
  /\ sumCounts(builderState.baseCounts) = 0
  /\ RawModCount(builderState) = 0
  /\ builderState.modifierCapacity = 0
  /\ builderState.nullCount = minNulls

\* C20 (SpecPlay): startPlay of the null card or of a modifier card reports
\* an error and leaves activePlay unchanged; startPlay of any other card
\* replaces activePlay, whatever it holds (attached modifiers included), by
\* {baseId, mods: []}.
C20_StartPlay ==
  \A cardId \in CardIds :
    LET o == startPlayBaseOutcome(cardId)
    IN IF cardId = nullId \/ cardId \in ModIds
         THEN /\ o.activePlay = activePlay
              /\ o.opsError # NoError
              /\ o.opsError = (IF cardId = nullId THEN NullOnlyMsg ELSE BaseFirstPlayMsg)
       ELSE /\ o.activePlay = [baseId |-> cardId, mods |-> <<>>]
            /\ o.opsError = NoError

\* startPlay of a modifier rejected while a play with an attached modifier
\* is open
C20_Witness ==
  /\ activePlay # NoPlay
  /\ activePlay.mods # <<>>
  /\ opsError = BaseFirstPlayMsg

\* the three values an attach leaves behind, before the command
PlayNow == [activePlay |-> activePlay, attachWarningId |-> attachWarningId,
            opsError |-> opsError]

\* C21 as stated (SpecSelect): every rejected toggleAttach leaves activePlay
\* unchanged; with no base selected, whatever the id, it reports an error
\* and sets the attach-warning marker to the id; with the null card it
\* reports an error; with any other id outside the modifier set it reports
\* nothing and changes nothing.
C21_RejectionsAsListed ==
  \A cardId \in CardIds :
    LET o == attachModifierOutcome(cardId)
    IN /\ activePlay = NoPlay =>
            /\ o.activePlay = activePlay
            /\ o.opsError \in {BaseFirstAttachMsg, NullOnlyMsg}
            /\ o.attachWarningId = cardId
       /\ cardId = nullId =>
            /\ o.activePlay = activePlay
            /\ o.opsError = NullOnlyMsg
       /\ (cardId # nullId /\ cardId \notin ModIds) => o = PlayNow

\* C21 amended (SpecSelect): the rejections are tried in the order null
\* card, no base selected, id outside the modifier set, and each leaves
\* activePlay unchanged: the null card reports an error and leaves the
\* marker alone (base selected or not); any other id with no base selected
\* reports an error and sets the marker to the id (modifier or not); an id
\* outside the modifier set with a base selected reports nothing and
\* changes nothing.
C21_RejectionsInOrder ==
  \A cardId \in CardIds :
    LET o == attachModifierOutcome(cardId)
    IN IF cardId = nullId
         THEN o = [PlayNow EXCEPT !.opsError = NullOnlyMsg]
       ELSE IF activePlay = NoPlay
         THEN o = [PlayNow EXCEPT !.opsError = BaseFirstAttachMsg,
                                  !.attachWarningId = cardId]
       ELSE cardId \notin ModIds => o = PlayNow

\* an attach of a base card was rejected for want of a selected base: the
\* marker is on the base card
C21_Witness ==
  /\ activePlay = NoPlay
  /\ attachWarningId \in BaseIds
  /\ opsError = BaseFirstAttachMsg

\* the attach of modId to the live selection is admissible: a copy in hand
\* and the summed cost, modId included, within the capacity
AttachFits(modId) ==
  /\ CountEntry(builderState.hand, modId) >= 1
  /\ SumCosts(activePlay.mods) + Cost(modId) <= builderState.modifierCapacity

\* the effect of one toggleAttach of a modifier while a base is selected
C22_ToggleEffect ==
  \A modId \in ModIds :
    activePlay # NoPlay =>
      LET o == attachModifierOutcome(modId)
          Keep(m) == m # modId
      IN /\ o.activePlay.baseId = activePlay.baseId
         /\ o.activePlay.mods =
              IF Includes(activePlay.mods, modId)
                THEN SelectSeq(activePlay.mods, Keep)
              ELSE IF AttachFits(modId) THEN Append(activePlay.mods, modId)
              ELSE activePlay.mods

\* a step that attaches modId is undone by the next toggle of modId
C22_ToggleTwice ==
  \A modId \in ModIds :
    (/\ activePlay # NoPlay
     /\ ~Includes(activePlay.mods, modId)
     /\ activePlay' = attachModifierOutcome(modId).activePlay
     /\ Includes(activePlay'.mods, modId))
      => attachModifierOutcome(modId)'.activePlay = activePlay

C22_RefusedByCapacity ==
  /\ activePlay.baseId \in BaseIds
  /\ activePlay.mods = <<>>
  /\ CountEntry(builderState.hand, "M1") >= 1
  /\ builderState.modifierCapacity < Cost("M1")

\* the entries appended to the discard by a command: next minus before
Appended(before, next) == SubSeq(next, Len(before) + 1, Len(next))

\* C23 (SpecSelect): finalizePlay with an active base moves one hand entry
\* of the base and one of each attached modifier to the discard with
\* origin=played: the hand shrinks and the discard grows by 1 + |mods|, the
\* ids moved are the base and the attached modifiers, and activePlay is
\* absent afterwards; with no active play nothing changes. Stated for every
\* state the commands can reach with a play open.
C23_FinalizeMoves ==
  LET o == finalizePlayOutcome
      moved == Appended(builderState.discard, o.builderState.discard)
  IN IF activePlay = NoPlay
       THEN o = [builderState |-> builderState, activePlay |-> activePlay]
     ELSE /\ o.activePlay = NoPlay
          /\ Len(o.builderState.hand) =
               Len(builderState.hand) - (1 + Len(activePlay.mods))
          /\ Len(o.builderState.discard) =
               Len(builderState.discard) + 1 + Len(activePlay.mods)
          /\ Ids(moved) = <<activePlay.baseId>> \o activePlay.mods
          /\ \A i \in 1..Len(moved) : moved[i].origin = "played"
          /\ o.builderState.deck = builderState.deck

\* one cancelPlay: activePlay absent, deck, hand, discard and composition
\* (the whole builderState) as before
C24_CancelEffect ==
  /\ cancelPlayOutcome.activePlay = NoPlay
  /\ cancelPlayOutcome.builderState = builderState

\* a step that cancels an open play is followed by a cancelPlay that
\* changes nothing
C24_CancelTwice ==
  (/\ activePlay # NoPlay
   /\ activePlay' = cancelPlayOutcome.activePlay
   /\ builderState' = cancelPlayOutcome.builderState)
    => cancelPlayOutcome' = [builderState |-> builderState',
                             activePlay |-> activePlay']

\* C24 (SpecSelect): cancelPlay is idempotent: after one cancelPlay
\* activePlay is absent and a second cancelPlay in a row yields the same
\* state; cancelPlay never changes deck, hand, discard or composition.
C24_CancelIdempotent == []C24_CancelEffect /\ [][C24_CancelTwice]_vars

\* a play with an attached modifier is open over a non-empty hand and a
\* non-empty discard, and cancelPlay would clear it
C24_Witness ==
  /\ activePlay.mods # <<>>
  /\ builderState.hand # <<>>
  /\ builderState.discard # <<>>
  /\ cancelPlayOutcome.activePlay # activePlay

\* the three zones of a builder state
Zones(bs) == <<bs.deck, bs.hand, bs.discard>>

\* the messages only startPlay and toggleAttach report
PlayMsgs == {NullOnlyMsg, BaseFirstPlayMsg, BaseFirstAttachMsg}

\* a step of the play protocol that shows: the selection or the attach
\* marker changes, or a play message is newly reported
PlayStep ==
  \/ activePlay' # activePlay
  \/ attachWarningId' # attachWarningId
  \/ (opsError' # opsError /\ opsError' \in PlayMsgs)

\* C25 (SpecSelect): among the play-protocol operations only finalizePlay
\* changes a zone: a step of the protocol that changes deck, hand or
\* discard is a finalizePlay (the selection becomes absent and the zones
\* are those finalizePlay produces); startPlay and toggleAttach, successful
\* or rejected, leave deck, hand and discard unchanged.
C25_OnlyFinalizeMovesCards ==
  [][ /\ (PlayStep /\ Zones(builderState') # Zones(builderState))
           => (/\ activePlay # NoPlay
               /\ activePlay' = NoPlay
               /\ builderState' = finalizePlayOutcome.builderState)
      /\ (PlayStep /\ activePlay' # NoPlay)
           => Zones(builderState') = Zones(builderState) ]_vars

\* a modifier has been attached to a selected base while deck, hand and
\* discard all hold cards
C25_Witness ==
  /\ activePlay.baseId \in BaseIds
  /\ activePlay.mods # <<>>
  /\ builderState.deck # <<>>
  /\ builderState.hand # <<>>
  /\ builderState.discard # <<>>
  /\ attachWarningId = NoWarning

\* every id of the selection occurs in the hand
SelectionInHand(sel, hand) ==
  /\ CountEntry(hand, sel.baseId) >= 1
  /\ \A i \in 1..Len(sel.mods) : CountEntry(hand, sel.mods[i]) >= 1

\* C26 (SpecSelect): the play selection is a marker over hand entries: in
\* every reachable state where activePlay is present, its baseId and every
\* attached modifier id occur in hand, whatever commands (discardFromHand of
\* a selected card, lock, unlock, resetDeck, resetBuilder) came before.
C26_SelectionInHand ==
  activePlay # NoPlay => SelectionInHand(activePlay, builderState.hand)

\* the same for the commands after a startPlay of a card in hand: a step that
\* keeps a selection whose ids are all in hand leaves them in hand
SelectionSurvives ==
  [][ (/\ activePlay # NoPlay
       /\ SelectionInHand(activePlay, builderState.hand)
       /\ activePlay' = activePlay)
        => SelectionInHand(activePlay', builderState'.hand) ]_vars

\* number of discard entries with origin=played
PlayedCount(discard) ==
  Cardinality({i \in 1..Len(discard) : discard[i].origin = "played"})

\* the effect of discardFromHand(id, all, origin) on the current state
C27_DiscardEffect ==
  \A cardId \in CardIds, all \in BOOLEAN, origin \in Origins :
    LET n == discardGroupFromHandUpdater(builderState, cardId, all, origin)
        hand == builderState.hand
        k == CountEntry(hand, cardId)
        m == IF all THEN k ELSE Min(1, k)
        Other(h) == h.id # cardId
    IN /\ k = 0 => n = builderState
       /\ n = [builderState EXCEPT !.hand = n.hand, !.discard = n.discard]
       /\ n.discard = builderState.discard \o
                        [i \in 1..m |-> [id |-> cardId, origin |-> origin]]
       /\ SelectSeq(n.hand, Other) = SelectSeq(hand, Other)
       /\ CountEntry(n.hand, cardId) = k - m
       /\ (~all /\ k >= 1) =>
            \E i \in 1..Len(hand) :
              /\ hand[i].id = cardId
              /\ \A j \in 1..(i - 1) : hand[j].id # cardId
              /\ n.hand = SubSeq(hand, 1, i - 1) \o SubSeq(hand, i + 1, Len(hand))

\* a step that adds a discard entry with origin=played is a finalizePlay
C27_PlayedOnlyFromFinalize ==
  PlayedCount(builderState'.discard) > PlayedCount(builderState.discard)
    => (/\ activePlay # NoPlay
        /\ activePlay' = NoPlay
        /\ builderState' = finalizePlayOutcome.builderState)

\* C27 (SpecPlay): discardFromHand(id, all, origin) with all=false moves
\* exactly one hand entry with the id, the first in hand order, to the end
\* of the discard; with all=true it moves every hand entry with the id;
\* every moved entry carries the given origin, the entries with other ids
\* keep their relative order in hand, and with no matching entry the state
\* is unchanged. Discard entries with origin=played arise only from
\* finalizePlay.
C27_DiscardFromHand == []C27_DiscardEffect /\ [][C27_PlayedOnlyFromFinalize]_vars

\* two copies of a card in hand with another card between them, and a
\* played entry in the discard
C27_Witness ==
  /\ \E i, j, k \in 1..Len(builderState.hand) :
       /\ i < j /\ j < k
       /\ builderState.hand[i].id = builderState.hand[k].id
       /\ builderState.hand[j].id # builderState.hand[i].id
  /\ PlayedCount(builderState.discard) >= 1

\* positions of the entries with the id
Matching(entries, cardId) == {i \in 1..Len(entries) : entries[i].id = cardId}

\* the last m positions of a set of positions
LastOf(P, m) == {p \in P : Cardinality({q \in P : q > p}) < m}

\* the sequence without the entries at the positions S
Without(seq, S) ==
  LET kept == (1..Len(seq)) \ S
      At(i) == CHOOSE p \in kept : Cardinality({q \in kept : q <= p}) = i
  IN [i \in 1..Cardinality(kept) |-> seq[At(i)]]

\* C28 (Spec): returnDiscardToHand(id, all) moves min(k, hand space)
\* discard entries with the id into hand as unspent entries, k being 1 for
\* all=false and the number of matching discard entries for all=true, the
\* hand space being handLimit - hand.length (none when that is not
\* positive), and takes the most recently discarded matching entries
\* first; with no hand space or no matching entry hand and discard are
\* unchanged. returnDiscardItemToHand moves the one entry it is pointed at
\* under the same cap.
C28_ReturnToHand ==
  LET hand == builderState.hand
      discard == builderState.discard
      space == Max(0, builderState.handLimit - Len(hand))
  IN /\ \A cardId \in CardIds, all \in BOOLEAN :
          LET n == returnDiscardGroupToHandUpdater(builderState, cardId, all)
              P == Matching(discard, cardId)
              k == IF all THEN Cardinality(P) ELSE Min(1, Cardinality(P))
              m == Min(k, space)
          IN /\ m = 0 => n = builderState
             /\ n = [builderState EXCEPT !.hand = n.hand, !.discard = n.discard]
             /\ n.hand = hand \o [i \in 1..m |-> [id |-> cardId, state |-> "unspent"]]
             /\ n.discard = Without(discard, LastOf(P, m))
     /\ \A idx \in 1..Len(discard) :
          LET n == returnDiscardItemToHandUpdater(builderState, idx)
          IN IF space = 0 THEN n = builderState
             ELSE n = [builderState EXCEPT
                         !.hand = Append(hand, [id |-> discard[idx].id,
                                                state |-> "unspent"]),
                         !.discard = Without(discard, {idx})]

\* Scenario E and the partial move: the discard holds two copies of a card
\* around another card and the hand has room for fewer than two
C28_Witness ==
  /\ \E i, j, k \in 1..Len(builderState.discard) :
       /\ i < j /\ j < k
       /\ builderState.discard[i].id = builderState.discard[k].id
       /\ builderState.discard[j].id # builderState.discard[i].id
  /\ builderState.handLimit - Len(builderState.hand) \in {0, 1}
  /\ builderState.hand # <<>>

C30_ReturnToDeck ==
  LET deck == builderState.deck
      discard == builderState.discard
  IN /\ \A cardId \in CardIds, all \in BOOLEAN :
          LET n == returnDiscardGroupToDeckUpdater(builderState, cardId, all)
              P == Matching(discard, cardId)
              m == IF all THEN Cardinality(P) ELSE Min(1, Cardinality(P))
          IN /\ m = 0 => n = builderState
             /\ n = [builderState EXCEPT !.deck = n.deck, !.discard = n.discard]
             /\ n.hand = builderState.hand
             /\ n.deck = deck \o [i \in 1..m |-> cardId]
             /\ \E S \in SUBSET P :
                  /\ Cardinality(S) = m
                  /\ n.discard = Without(discard, S)
     /\ \A idx \in 1..Len(discard) :
          returnDiscardItemToDeckUpdater(builderState, idx) =
            [builderState EXCEPT !.deck = Append(deck, discard[idx].id),
                                 !.discard = Without(discard, {idx})]

\* the discard holds two copies of a card around another card, played and
\* discarded entries among them, over a non-empty deck
C30_Witness ==
  /\ \E i, j, k \in 1..Len(builderState.discard) :
       /\ i < j /\ j < k
       /\ builderState.discard[i].id = builderState.discard[k].id
       /\ builderState.discard[j].id # builderState.discard[i].id
       /\ builderState.discard[i].origin # builderState.discard[k].origin
  /\ builderState.deck # <<>>

\* C31 (Spec): discardFromDeck(count) moves exactly min(count, deck.length)
\* cards from the top (tail) of the deck to the end of the discard, top card
\* first, each with origin=discarded; it stops when the deck is empty (a
\* count above the deck length empties the deck and ends) and leaves the
\* hand and every other field unchanged.
C31_DiscardFromDeck ==
  LET deck == builderState.deck
  IN \A count \in 0..(Len(deck) + 1) :
       LET n == discardFromDeckUpdater(builderState, count)
           m == Min(count, Len(deck))
       IN /\ n = [builderState EXCEPT !.deck = n.deck, !.discard = n.discard]
          /\ n.hand = builderState.hand
          /\ n.deck = SubSeq(deck, 1, Len(deck) - m)
          /\ n.discard = builderState.discard \o
                [i \in 1..m |-> [id |-> deck[Len(deck) - i + 1],
                                 origin |-> "discarded"]]

\* two different cards were discarded from the deck one after the other,
\* with cards left in the deck and the hand empty
C31_Witness ==
  /\ builderState.hand = <<>>
  /\ Len(builderState.deck) >= 2
  /\ builderState.deck[1] # builderState.deck[Len(builderState.deck)]
  /\ Len(builderState.discard) >= 2
  /\ builderState.discard[1].id # builderState.discard[2].id

\* the composition fields of a builder state
Composition(bs) == <<bs.baseCounts, bs.modCounts, bs.nullCount, bs.modifierCapacity>>

\* C32 (SpecLimit): handLimit is always within 0..20; setHandLimit(n) stores
\* n clamped into 0..20, a non-numeric input keeps the previous limit, the
\* default is 5, and setHandLimit changes no zone and no composition field
\* (nothing but handLimit).
C32_HandLimit ==
  /\ builderState.handLimit \in 0..MAX_HAND_LIMIT
  /\ defaultState.handLimit = 5
  /\ \A next \in LimitInputs :
       LET n == setHandLimitUpdater(builderState, next)
       IN /\ n = [builderState EXCEPT !.handLimit = n.handLimit]
          /\ Zones(n) = Zones(builderState)
          /\ Composition(n) = Composition(builderState)
          /\ n.handLimit =
               IF next.nan THEN builderState.handLimit
               ELSE IF next.n < 0 THEN 0
               ELSE IF next.n > 20 THEN 20
               ELSE next.n

\* the limit stands at its maximum over a session with cards in deck and
\* hand
C32_Witness ==
  /\ builderState.handLimit = 20
  /\ builderState.hand # <<>>
  /\ builderState.deck # <<>>

\* the values resetBuilder writes, as a record of the current state
ResetNow == [builderState |-> builderState, hasBuiltDeck |-> hasBuiltDeck,
             hasShuffledDeck |-> hasShuffledDeck, opsError |-> opsError]

\* one resetBuilder returns every field to its default
C33_ResetEffect ==
  LET o == resetBuilderOutcome
      bs == o.builderState
  IN /\ ~bs.isLocked
     /\ ~o.hasBuiltDeck /\ ~bs.hasBuiltDeck
     /\ ~o.hasShuffledDeck /\ ~bs.hasShuffledDeck
     /\ ZonesEmpty(bs)
     /\ bs.nullCount = minNulls
     /\ bs.modifierCapacity = modifierCapacityDefault
     /\ bs.handLimit = 5
     /\ ~simpleCounters =>
          /\ \A id \in BaseIds : bs.baseCounts[id] = 0
          /\ \A id \in ModIds : bs.modCounts[id] = 0

\* a resetBuilder step is followed by a resetBuilder that changes nothing
C33_ResetTwice ==
  ResetNow' = resetBuilderOutcome => resetBuilderOutcome' = ResetNow'

\* C33 (SpecReset): resetBuilder from any reachable state is a full return
\* to defaults: isLocked=false, built=false, shuffled=false, deck, hand and
\* discard empty, nullCount=minNulls, modifierCapacity=default, handLimit=5
\* and, outside simple-counters mode, every base and modifier count 0;
\* resetBuilder applied twice gives the same state as once.
C33_ResetBuilder == []C33_ResetEffect /\ [][C33_ResetTwice]_vars

\* a locked session with cards in hand, a changed capacity, a changed hand
\* limit and a changed base count, outside simple-counters mode
C33_Witness ==
  /\ ~simpleCounters
  /\ builderState.isLocked
  /\ builderState.hand # <<>>
  /\ builderState.modifierCapacity # modifierCapacityDefault
  /\ builderState.handLimit # DEFAULT_HAND_LIMIT
  /\ builderState.baseCounts["B1"] > 0
  /\ resetBuilderOutcome # ResetNow

\* an absent or unparseable record gives exactly the default state, and
\* each absent field of a record takes its own default
C34_Defaults ==
  LET d == jsState(defaultState)
      raw == loaded.raw
  IN /\ raw.kind \in {"none", "garbage"} => loaded.state = d
     /\ raw.kind = "object" =>
          \A f \in DOMAIN d : raw.fields[f] = Absent => loaded.state[f] = d[f]

\* the result has handLimit within 0..20 and nullCount >= minNulls
C34_Ranges ==
  /\ IsNumber(loaded.state.handLimit)
  /\ loaded.state.handLimit.n \in 0..MAX_HAND_LIMIT
  /\ IsNumber(loaded.state.nullCount)
  /\ loaded.state.nullCount.n >= minNulls

\* C34 (SpecLoad): for every stored record loadState returns a state; an
\* absent record or unparseable text yields exactly the default state; each
\* field that is absent takes its own default independently of the others;
\* and the result always has handLimit within 0..20 and nullCount >=
\* minNulls.
C34_LoadState == C34_Defaults /\ C34_Ranges

\* the stored keys of the namespace
StoredCollapseKeys(st) == {k \in CollapseKeys : st[k] # NoText}

\* text that is not JSON, a non-object, or a payload (the data object of a
\* wrapped file, else the object itself) with no key under the namespace
EmptyImport(file) ==
  \/ file.kind = "garbage"
  \/ file.kind = "scalar"
  \/ /\ file.kind = "object"
     /\ \A k \in DOMAIN (IF file.wrapped THEN file.data ELSE file.top) :
          k \notin CollapseKeys

C35_Rejected ==
  \A file \in Files :
    EmptyImport(file) =>
      /\ importStartOutcome(file).importPhase = "failed"
      /\ importStartOutcome(file).storage = storage

C35_Unchanged ==
  importPhase' \in {"failed", "cancelled"} => storage' = storage

\* C35 (SpecImport): a malformed or empty import (text that is not JSON, a
\* non-object, or an object with no key under the namespace) and an import
\* whose confirmation is declined each leave every stored key and value
\* unchanged.
C35_RejectedImport == []C35_Rejected /\ [][C35_Unchanged]_vars

\* a declined import over a stored text that the import would have replaced
C35_Witness ==
  /\ importPhase = "cancelled"
  /\ storage["collapse.a"] = RawText("hello")
  /\ "collapse.a" \in DOMAIN pending
  /\ pending["collapse.a"] = Val("v1")

\* at the confirmation the backup holds the snapshot of what is stored
C36_BackupFirst ==
  importPhase \in {"confirm", "removed"} =>
    /\ backup.kind = "object"
    /\ importPhase = "confirm" => backup.data = snapshotCollapseData(storage)

\* the store changes in the removal after the accepted confirmation and in
\* the write after the removal only; the removal leaves no key of the
\* namespace; after the write the keys of the namespace are those of the
\* payload, each with the text of its value; other keys never change
C36_Order ==
  /\ storage' # storage =>
       \/ importPhase = "confirm" /\ importPhase' = "removed"
       \/ importPhase = "removed" /\ importPhase' = "complete"
  /\ importPhase' = "removed" => StoredCollapseKeys(storage') = {}
  /\ importPhase' = "complete" =>
       /\ StoredCollapseKeys(storage') = DOMAIN pending \cap CollapseKeys
       /\ \A k \in DOMAIN pending \cap CollapseKeys :
            storage'[k] = JsonText(pending[k])
  /\ \A k \in OtherKeys : storage'[k] = storage[k]

\* C36 (SpecImport): a confirmed import proceeds in the order backup
\* snapshot, confirmation, removal, write: no namespaced key is removed or
\* written before the backup has been produced and the confirmation
\* accepted; afterwards the set of keys under the namespace equals exactly
\* the namespaced keys of the imported payload, and every key outside the
\* namespace is unchanged.
C36_ConfirmedImport == []C36_BackupFirst /\ [][C36_Order]_vars

\* a completed import whose payload also had a key outside the namespace,
\* over a store that held a key of the namespace the payload lacks
C36_Witness ==
  /\ importPhase = "complete"
  /\ backup.kind = "object"
  /\ \E k \in DOMAIN backup.data : k \notin DOMAIN pending
  /\ \E k \in OtherKeys : k \in DOMAIN pending /\ storage[k] # NoText

\* the store after a confirmed import of the given file into the store st
ImportedInto(st, file) ==
  persistCollapseEntries(removeCollapseData(st),
                         filterCollapseEntries(importedData(file)))

\* C40 (SpecImport): export followed by a confirmed import of the exported
\* file is a round trip on storage: each key under the namespace holds the
\* same stored text after the import as before the export (including
\* values whose stored text is not valid JSON), and keys outside the
\* namespace are unchanged.
C40_RoundTrip ==
  (exported # NoFile /\ exported = exportPayload(storage) /\ ImportIdle) =>
    /\ importStartOutcome(exported).importPhase = "confirm"
    /\ ImportedInto(storage, exported) = storage

\* the round trip keeps the value each text stands for, and keeps the text
\* itself when it is the text JSON.stringify gives
C40_ValuesKept ==
  (exported # NoFile /\ exported = exportPayload(storage) /\ ImportIdle) =>
    /\ importStartOutcome(exported).importPhase = "confirm"
    /\ \A k \in OtherKeys : ImportedInto(storage, exported)[k] = storage[k]
    /\ snapshotCollapseData(ImportedInto(storage, exported))
         = snapshotCollapseData(storage)
    /\ \A k \in CollapseKeys :
         storage[k].kind \in {"none", "json"} =>
           ImportedInto(storage, exported)[k] = storage[k]

\* the deck holds each card as often as the counts of the same state say
DeckOfCounts(bs) ==
  \A id \in CardIds : CountId(bs.deck, id) = CompCount(bs, id)

\* C37 (SpecBatched): lock reads its composition from the state it mutates:
\* also when a count adjustment is applied right before the lock, with no
\* render in between, the deck materialized by the lock is a permutation of
\* the multiset given by the counts of the state in which isLocked becomes
\* true.
C37_LockReadsState ==
  [][(~builderState.isLocked /\ builderState'.isLocked)
       => DeckOfCounts(builderState')]_vars

\* with a render between the adjustment and the lock the deck has the
\* counts of the locked state
C37_LockAfterRender ==
  [][(~builderState.isLocked /\ builderState'.isLocked
        /\ rendered.builderState = builderState)
       => DeckOfCounts(builderState')]_vars

\* C38 (SpecSelect): lock is not gated on composition validity: from every
\* Unlocked state, including one where the validator's overall result is
\* false (base total # baseTarget or capacity used > modifierCapacity), lock
\* succeeds and enters Locked-Built-Unshuffled with a deck materialized
\* from that composition.
C38_LockNotGated ==
  ~builderState.isLocked =>
    /\ lockDecks # {}
    /\ \A built \in lockDecks :
         LET o == toggleLockOutcome(built)
         IN /\ o.builderState.isLocked
            /\ o.hasBuiltDeck /\ o.builderState.hasBuiltDeck
            /\ ~o.hasShuffledDeck /\ ~o.builderState.hasShuffledDeck
            /\ Composition(o.builderState) = Composition(builderState)
            /\ DeckOfCounts(o.builderState)

\* a deck locked and built, not shuffled, from a composition with too few
\* base cards and more capacity used than there is
C38_Witness ==
  /\ builderState.isLocked /\ hasBuiltDeck /\ ~hasShuffledDeck
  /\ opsError = ShuffleMsg
  /\ ~baseValid /\ ~modValid
  /\ builderState.hand = <<>> /\ builderState.discard = <<>>
  /\ builderState.deck # <<>>
  /\ DeckOfCounts(builderState)

\* C39 (SpecSelect): resetDeck, in any state and without changing isLocked
\* or the composition, replaces deck by a permutation of the composition
\* multiset, empties hand and discard, and sets built and shuffled.
C39_ResetDeck ==
  /\ shuffleInPlace(buildDeckArray(rendered.builderState)) # {}
  /\ \A shuffled \in shuffleInPlace(buildDeckArray(rendered.builderState)) :
       LET o == resetDeckOutcome(shuffled)
       IN /\ o.builderState.isLocked = builderState.isLocked
          /\ Composition(o.builderState) = Composition(builderState)
          /\ DeckOfCounts(o.builderState)
          /\ o.builderState.hand = <<>>
          /\ o.builderState.discard = <<>>
          /\ o.hasBuiltDeck /\ o.builderState.hasBuiltDeck
          /\ o.hasShuffledDeck /\ o.builderState.hasShuffledDeck

\* an unlocked builder whose deck resetDeck has built and shuffled
C39_Witness ==
  /\ ~builderState.isLocked
  /\ hasBuiltDeck /\ builderState.hasBuiltDeck
  /\ hasShuffledDeck /\ builderState.hasShuffledDeck
  /\ builderState.hand = <<>> /\ builderState.discard = <<>>
  /\ Len(builderState.deck) >= 3
  /\ DeckOfCounts(builderState)
====
